---- MODULE Spec2Model ----
(***************************************************************************)
(* A model of the board engine of chess_w_oop: src/board.py (Board,        *)
(* MoveHistory), src/figures.py (the eleven piece classes and their        *)
(* can_move predicates).                                                   *)
(*                                                                         *)
(* Conventions.                                                            *)
(*  - A Python string is a sequence of one-character strings:              *)
(*    "A1" is <<"A", "1">>.                                                *)
(*  - A Python None / empty optional is the empty sequence <<>>; an        *)
(*    optional value v is <<v>> (last_move and enemy_to_capture, which are *)
(*    tuples in the code, are the tuple itself or <<>>).                   *)
(*  - self.board is a function on Cells (8 x 8); a list index i is         *)
(*    resolved as Python does: 0..7 as is, -8..-1 from the end, anything   *)
(*    else an IndexError.                                                  *)
(*  - self.figures (a dict) is a function whose DOMAIN is its key set; a   *)
(*    lookup of a key outside it is a KeyError.                            *)
(*  - A Figure object is a record [cls, color, row, column].  Snapshots    *)
(*    are deep copies in the code (copy.deepcopy), so values suffice.      *)
(*  - A call that raises records the exception class in op.result.         *)
(***************************************************************************)
EXTENDS Integers, Sequences, FiniteSets, TLC

VARIABLES
    game_type,          \* Board.game_type
    board,              \* Board.board, the 8 x 8 grid of symbols
    figures,            \* Board.figures, (row, column) -> Figure
    last_move,          \* Board.last_move
    move_history,       \* Board.move_history, a list of MoveHistory
    enemy_to_capture,   \* Board.enemy_to_capture
    move_count,         \* Board.move_count
    main_current_player,  \* main's local current_player
    op,                 \* the call that has just returned, or Idle
    gtrace,             \* observer: what really preceded and followed each
                        \* move still in the history
    dirty,              \* observer: grid or mapping changed since the last
                        \* move other than by a move or an undo
    prev_last,          \* observer: <<Last Move before the latest move>>
                        \* while no undo has followed that move, else <<>>
    edits               \* observer: place/remove calls made after setup

vars == <<game_type, board, figures, last_move, move_history,
          enemy_to_capture, move_count, main_current_player, op, gtrace,
          dirty, prev_last, edits>>

----------------------------------------------------------------------------
(* Bounds of the model.                                                    *)

\* Longest move history explored (the code's history is unbounded): in
\* play without place/remove calls, with them, and with arbitrary strings.
MaxMoves == 2
MaxEditMoves == 1
MaxRawMoves == 1

\* Number of place_figure / remove_figure calls that change the board,
\* made after setup.
MaxEdits == 1

\* Longest move history explored in play with the threat listing.
MaxThreatMoves == 1

\* Longest move history explored in play from the start position.
MaxStartMoves == 1

\* Longest move history explored in play with the CheckerKing.
MaxKingMoves == 2

\* Longest move history explored in play around the edited squares.
MaxPlaceMoves == 1

\* Longest move history explored in checkers play with the threat listing.
MaxCheckersMoves == 2

\* Longest move history explored in play near the far ranks.
MaxPromoMoves == 2

\* Longest move history explored in a game session.
MaxMainMoves == 2

\* Longest move history explored in play with the sliding pieces.
MaxSliderMoves == 1

\* Side of the board: range(8) in Board.create_board.
BoardSize == 8

----------------------------------------------------------------------------
(* Characters.                                                             *)

UpperCase == <<"A","B","C","D","E","F","G","H","I","J","K","L","M",
               "N","O","P","Q","R","S","T","U","V","W","X","Y","Z">>
LowerCase == <<"a","b","c","d","e","f","g","h","i","j","k","l","m",
               "n","o","p","q","r","s","t","u","v","w","x","y","z">>
DigitChars == <<"0","1","2","3","4","5","6","7","8","9">>

Range(s) == {s[i] : i \in DOMAIN s}
IndexOf(s, ch) == CHOOSE i \in DOMAIN s : s[i] = ch

\* str.isalpha on one character (the ASCII letters).
IsAlpha(ch) == ch \in Range(UpperCase) \cup Range(LowerCase)
\* str.isdigit on one character (the ASCII digits).
IsDigit(ch) == ch \in Range(DigitChars)
\* ord(ch.lower()) - ord('a')
LetterOffset(ch) ==
    IF ch \in Range(UpperCase) THEN IndexOf(UpperCase, ch) - 1
    ELSE IndexOf(LowerCase, ch) - 1
\* int(ch) for a digit character
DigitValue(ch) == IndexOf(DigitChars, ch) - 1

----------------------------------------------------------------------------
(* Board.algebraic_to_indices / indices_to_algebraic                       *)

\* [ok |-> FALSE] is the ValueError; otherwise the (row, column) returned.
\* No range check is made on the letter or the digit.
algebraic_to_indices(position) ==
    IF Len(position) # 2 THEN [ok |-> FALSE, row |-> 0, column |-> 0]
    ELSE IF ~IsAlpha(position[1]) \/ ~IsDigit(position[2])
         THEN [ok |-> FALSE, row |-> 0, column |-> 0]
         ELSE [ok |-> TRUE,
               row |-> BoardSize - DigitValue(position[2]),
               column |-> LetterOffset(position[1])]

indices_to_algebraic(row, column) ==
    <<UpperCase[column + 1], DigitChars[(BoardSize - row) + 1]>>

----------------------------------------------------------------------------
(* Pieces.                                                                 *)

Colors == {"white", "black"}
Classes == {"Pawn", "Rook", "Knight", "Bishop", "Queen", "King", "Checker",
            "CheckerKing", "LightRook", "ShortBishop", "Guardian"}

WhiteSymbol(cls) ==
    CASE cls = "Pawn" -> "P"
      [] cls = "Rook" -> "R"
      [] cls = "Knight" -> "N"
      [] cls = "Bishop" -> "B"
      [] cls = "Queen" -> "Q"
      [] cls = "King" -> "K"
      [] cls = "Checker" -> "C"
      [] cls = "CheckerKing" -> "K"
      [] cls = "LightRook" -> "L"
      [] cls = "ShortBishop" -> "S"
      [] cls = "Guardian" -> "G"

BlackSymbol(cls) ==
    CASE cls = "Pawn" -> "p"
      [] cls = "Rook" -> "r"
      [] cls = "Knight" -> "n"
      [] cls = "Bishop" -> "b"
      [] cls = "Queen" -> "q"
      [] cls = "King" -> "k"
      [] cls = "Checker" -> "c"
      [] cls = "CheckerKing" -> "k"
      [] cls = "LightRook" -> "l"
      [] cls = "ShortBishop" -> "s"
      [] cls = "Guardian" -> "g"

\* The symbol each constructor sets.
Symbol(cls, color) == IF color = "white" THEN WhiteSymbol(cls) ELSE BlackSymbol(cls)

\* A figure after set_position(row, column).
Figure(cls, color, row, column) ==
    [cls |-> cls, color |-> color, row |-> row, column |-> column]

set_position(fig, row, column) == [fig EXCEPT !.row = row, !.column = column]

Abs(x) == IF x < 0 THEN -x ELSE x
Max(a, b) == IF a > b THEN a ELSE b
Min(a, b) == IF a < b THEN a ELSE b

----------------------------------------------------------------------------
(* The grid and the mapping.                                               *)

Cells == (0..(BoardSize - 1)) \X (0..(BoardSize - 1))

create_board == [cell \in Cells |-> "."]

\* A Python list index: i itself, or counted from the end when negative.
InIndexRange(i) == i \in (-BoardSize)..(BoardSize - 1)
ListIndex(i) == IF i < 0 THEN i + BoardSize ELSE i

\* self.board[row][column]: the cell's symbol, or "IndexError".
BoardGet(b, row, column) ==
    IF InIndexRange(row) /\ InIndexRange(column)
    THEN b[<<ListIndex(row), ListIndex(column)>>]
    ELSE "IndexError"

\* self.board[row][column] = sym, for indices in range.
BoardSet(b, row, column, sym) ==
    [b EXCEPT ![<<ListIndex(row), ListIndex(column)>>] = sym]

HasKey(figs, row, column) == <<row, column>> \in DOMAIN figs

\* self.figures[(row, column)] = fig
FigSet(figs, row, column, fig) == (<<row, column>> :> fig) @@ figs

\* del self.figures[(row, column)], for a key that is present.
FigDel(figs, row, column) ==
    [k \in (DOMAIN figs) \ {<<row, column>>} |-> figs[k]]

\* Board.get_piece: <<>> for None.
get_piece(figs, row, column) ==
    IF HasKey(figs, row, column) THEN <<figs[<<row, column>>]>> ELSE <<>>

----------------------------------------------------------------------------
(* Legality predicates (figures.py).  Each returns "True", "False", or the *)
(* class of the exception the Python code raises ("IndexError" for a list  *)
(* index out of range, "KeyError" for a missing mapping key).              *)

\* last_move accessors: ((from_row, from_col), (to_row, to_col), piece).
\* Only the piece's class is ever read from a stored last move.
LastFrom(lm) == lm[1]
LastTo(lm) == lm[2]
LastPiece(lm) == lm[3]

Direction(color) == IF color = "white" THEN -1 ELSE 1
StartRow(color) == IF color = "white" THEN 6 ELSE 1

\* A faulty en-passant test: the last move's column is compared with the
\* capturing pawn's row index instead of the destination column.
EnPassantMatchWrongColumn(lm, row, to_column) ==
    /\ lm # <<>>
    /\ LastPiece(lm).cls = "Pawn"
    /\ Abs(LastTo(lm)[1] - LastFrom(lm)[1]) = 2
    /\ LastTo(lm)[1] = row
    /\ LastTo(lm)[2] = row

\* The en-passant test shared by Pawn.can_move and Board.move_figure:
\* the last move was a Pawn's, two rows long, ending on row `row`,
\* column `to_column`.
EnPassantMatch(lm, row, to_column) ==
    /\ lm # <<>>
    /\ LastPiece(lm).cls = "Pawn"
    /\ Abs(LastTo(lm)[1] - LastFrom(lm)[1]) = 2
    /\ LastTo(lm)[1] = row
    /\ LastTo(lm)[2] = to_column

PawnDiagonal(self, to_row, to_column, b, figs, lm) ==
    LET g == BoardGet(b, to_row, to_column) IN
    IF g = "IndexError" THEN "IndexError"
    ELSE IF g # "."
         THEN IF ~HasKey(figs, to_row, to_column) THEN "KeyError"
              ELSE IF figs[<<to_row, to_column>>].color # self.color THEN "True"
              ELSE "False"
         ELSE IF get_piece(figs, to_row, to_column) # <<>> THEN "False"
              ELSE IF EnPassantMatch(lm, self.row, to_column) THEN "True"
              ELSE "False"

PawnCanMove(self, to_row, to_column, b, figs, lm) ==
    LET direction == Direction(self.color)
        start_row == StartRow(self.color)
        oneStep == to_column = self.column /\ to_row = self.row + direction
        g1 == BoardGet(b, to_row, to_column)
        twoStep == /\ to_column = self.column
                   /\ to_row = self.row + 2 * direction
                   /\ self.row = start_row
        gMid == BoardGet(b, self.row + direction, self.column)
        diag == Abs(to_column - self.column) = 1 /\ to_row = self.row + direction
    IN  IF oneStep /\ g1 = "IndexError" THEN "IndexError"
        ELSE IF oneStep /\ g1 = "." THEN "True"
        ELSE IF twoStep /\ g1 = "IndexError" THEN "IndexError"
        ELSE IF twoStep /\ g1 = "." /\ gMid = "IndexError" THEN "IndexError"
        ELSE IF twoStep /\ g1 = "." /\ gMid = "." THEN "True"
        ELSE IF diag THEN PawnDiagonal(self, to_row, to_column, b, figs, lm)
        ELSE "False"

\* The path loops of Rook and LightRook: n cells from (row, column) in
\* steps of (drow, dcol), each read from the grid; the first occupied one
\* ends the walk with False.
RECURSIVE LineWalk(_, _, _, _, _, _)
LineWalk(b, row, column, drow, dcol, n) ==
    IF n <= 0 THEN "True"
    ELSE LET g == BoardGet(b, row, column) IN
         IF g = "IndexError" THEN "IndexError"
         ELSE IF g # "." THEN "False"
         ELSE LineWalk(b, row + drow, column + dcol, drow, dcol, n - 1)

Step(to, from) == IF to > from THEN 1 ELSE -1

RookCanMove(self, to_row, to_column, b) ==
    IF to_row = self.row /\ to_column # self.column
    THEN LET step == Step(to_column, self.column) IN
         LineWalk(b, self.row, self.column + step, 0, step,
                  Abs(to_column - self.column) - 1)
    ELSE IF to_column = self.column /\ to_row # self.row
    THEN LET step == Step(to_row, self.row) IN
         LineWalk(b, self.row + step, self.column, step, 0,
                  Abs(to_row - self.row) - 1)
    ELSE "False"

KnightCanMove(self, to_row, to_column) ==
    LET row_diff == Abs(to_row - self.row)
        col_diff == Abs(to_column - self.column)
    IN  IF (row_diff = 2 /\ col_diff = 1) \/ (row_diff = 1 /\ col_diff = 2)
        THEN "True" ELSE "False"

\* The while loop of Bishop and ShortBishop: it runs until the row OR the
\* column reaches the target's, reading the grid at each cell on the way.
RECURSIVE DiagWalk(_, _, _, _, _, _, _)
DiagWalk(b, row, column, row_step, col_step, to_row, to_column) ==
    IF row = to_row \/ column = to_column THEN "True"
    ELSE LET g == BoardGet(b, row, column) IN
         IF g = "IndexError" THEN "IndexError"
         ELSE IF g # "." THEN "False"
         ELSE DiagWalk(b, row + row_step, column + col_step,
                       row_step, col_step, to_row, to_column)

BishopCanMove(self, to_row, to_column, b) ==
    IF Abs(to_row - self.row) = Abs(to_column - self.column)
    THEN LET row_step == Step(to_row, self.row)
             col_step == Step(to_column, self.column)
         IN  DiagWalk(b, self.row + row_step, self.column + col_step,
                      row_step, col_step, to_row, to_column)
    ELSE "False"

\* rook.can_move(...) or bishop.can_move(...): the bishop is asked only
\* when the rook answers False.
QueenCanMove(self, to_row, to_column, b) ==
    LET r == RookCanMove(self, to_row, to_column, b) IN
    IF r # "False" THEN r ELSE BishopCanMove(self, to_row, to_column, b)

KingCanMove(self, to_row, to_column) ==
    LET row_diff == Abs(to_row - self.row)
        col_diff == Abs(to_column - self.column)
    IN  IF Max(row_diff, col_diff) = 1 THEN "True" ELSE "False"

\* A faulty jump test: the colour of the piece jumped over is not looked at.
CheckerJumpAnyPiece(self, to_row, to_column, b, figs) ==
    LET direction == Direction(self.color)
        mid_row == self.row + direction
        mid_col == (self.column + to_column) \div 2
        gMid == BoardGet(b, mid_row, mid_col)
        gTo == BoardGet(b, to_row, to_column)
    IN  IF gMid = "IndexError" THEN "IndexError"
        ELSE IF gMid = "." THEN "False"
        ELSE IF gTo = "IndexError" THEN "IndexError"
        ELSE IF gTo = "." THEN "True"
        ELSE "False"

\* A faulty jump: the cell behind the jumped piece is not required to be
\* empty.
CheckerJumpOntoOccupied(self, to_row, to_column, b, figs) ==
    LET direction == Direction(self.color)
        mid_row == self.row + direction
        mid_col == (self.column + to_column) \div 2
        gMid == BoardGet(b, mid_row, mid_col)
        gTo == BoardGet(b, to_row, to_column)
    IN  IF gMid = "IndexError" THEN "IndexError"
        ELSE IF gMid = "." THEN "False"
        ELSE IF ~HasKey(figs, mid_row, mid_col) THEN "KeyError"
        ELSE IF figs[<<mid_row, mid_col>>].color = self.color THEN "False"
        ELSE IF gTo = "IndexError" THEN "IndexError"
        ELSE "True"

CheckerJump(self, to_row, to_column, b, figs) ==
    LET direction == Direction(self.color)
        mid_row == self.row + direction
        mid_col == (self.column + to_column) \div 2
        gMid == BoardGet(b, mid_row, mid_col)
        gTo == BoardGet(b, to_row, to_column)
    IN  IF gMid = "IndexError" THEN "IndexError"
        ELSE IF gMid = "." THEN "False"
        ELSE IF ~HasKey(figs, mid_row, mid_col) THEN "KeyError"
        ELSE IF figs[<<mid_row, mid_col>>].color = self.color THEN "False"
        ELSE IF gTo = "IndexError" THEN "IndexError"
        ELSE IF gTo = "." THEN "True"
        ELSE "False"

\* A faulty step: the destination of a one-cell move is not required to be
\* empty.
CheckerCanMoveOntoOccupied(self, to_row, to_column, b, figs) ==
    LET direction == Direction(self.color)
        row_diff == to_row - self.row
        col_diff == Abs(to_column - self.column)
        step == row_diff = direction /\ col_diff = 1
        gTo == BoardGet(b, to_row, to_column)
    IN  IF step /\ gTo = "IndexError" THEN "IndexError"
        ELSE IF step THEN "True"
        ELSE IF row_diff = 2 * direction /\ col_diff = 2
             THEN CheckerJump(self, to_row, to_column, b, figs)
        ELSE "False"

CheckerCanMove(self, to_row, to_column, b, figs) ==
    LET direction == Direction(self.color)
        row_diff == to_row - self.row
        col_diff == Abs(to_column - self.column)
        step == row_diff = direction /\ col_diff = 1
        gTo == BoardGet(b, to_row, to_column)
    IN  IF step /\ gTo = "IndexError" THEN "IndexError"
        ELSE IF step /\ gTo = "." THEN "True"
        ELSE IF row_diff = 2 * direction /\ col_diff = 2
             THEN CheckerJump(self, to_row, to_column, b, figs)
        ELSE "False"

\* A faulty loop: a second enemy piece on the path does not end it.
RECURSIVE KingWalkManyEnemies(_, _, _, _, _, _, _, _, _, _)
KingWalkManyEnemies(b, figs, color, row, column, row_step, col_step, to_row, to_column, found) ==
    IF row = to_row \/ column = to_column THEN [ret |-> "True", found |-> found]
    ELSE LET g == BoardGet(b, row, column) IN
         IF g = "IndexError" THEN [ret |-> "IndexError", found |-> found]
         ELSE IF g = "."
              THEN KingWalkManyEnemies(b, figs, color, row + row_step, column + col_step,
                                       row_step, col_step, to_row, to_column, found)
         ELSE IF ~HasKey(figs, row, column) THEN [ret |-> "KeyError", found |-> found]
         ELSE IF figs[<<row, column>>].color = color THEN [ret |-> "False", found |-> found]
         ELSE KingWalkManyEnemies(b, figs, color, row + row_step, column + col_step,
                                  row_step, col_step, to_row, to_column, <<(<<row, column>>)>>)

\* The while loop of CheckerKing.can_move.  found is enemy_pos as an
\* optional: <<>> while no enemy was met, else <<(row, col)>>.
\* Returns [ret, found]; ret "True" means the loop ran to its end.
RECURSIVE KingWalk(_, _, _, _, _, _, _, _, _, _)
KingWalk(b, figs, color, row, column, row_step, col_step, to_row, to_column, found) ==
    IF row = to_row \/ column = to_column THEN [ret |-> "True", found |-> found]
    ELSE LET g == BoardGet(b, row, column) IN
         IF g = "IndexError" THEN [ret |-> "IndexError", found |-> found]
         ELSE IF g = "."
              THEN KingWalk(b, figs, color, row + row_step, column + col_step,
                            row_step, col_step, to_row, to_column, found)
         ELSE IF ~HasKey(figs, row, column) THEN [ret |-> "KeyError", found |-> found]
         ELSE IF figs[<<row, column>>].color = color THEN [ret |-> "False", found |-> found]
         ELSE IF found # <<>> THEN [ret |-> "False", found |-> found]
         ELSE KingWalk(b, figs, color, row + row_step, column + col_step,
                       row_step, col_step, to_row, to_column, <<(<<row, column>>)>>)

\* A faulty CheckerKing.can_move: the enemy met on the path is recorded
\* before the destination cell is looked at.
CheckerKingCanMoveRecordsEarly(self, to_row, to_column, b, figs, etc) ==
    IF Abs(to_row - self.row) # Abs(to_column - self.column)
    THEN [ret |-> "False", etc |-> etc]
    ELSE LET row_step == Step(to_row, self.row)
             col_step == Step(to_column, self.column)
             w == KingWalk(b, figs, self.color, self.row + row_step,
                           self.column + col_step, row_step, col_step,
                           to_row, to_column, <<>>)
             gTo == BoardGet(b, to_row, to_column)
             rec == IF w.found # <<>> THEN w.found[1] ELSE <<>>
         IN  IF w.ret # "True" THEN [ret |-> w.ret, etc |-> etc]
             ELSE IF gTo = "IndexError" THEN [ret |-> "IndexError", etc |-> rec]
             ELSE IF gTo # "." THEN [ret |-> "False", etc |-> rec]
             ELSE [ret |-> "True", etc |-> rec]

\* Returns [ret, etc]: etc is board.enemy_to_capture after the call (set
\* only on the path that returns True).
CheckerKingCanMove(self, to_row, to_column, b, figs, etc) ==
    IF Abs(to_row - self.row) # Abs(to_column - self.column)
    THEN [ret |-> "False", etc |-> etc]
    ELSE LET row_step == Step(to_row, self.row)
             col_step == Step(to_column, self.column)
             w == KingWalk(b, figs, self.color, self.row + row_step,
                           self.column + col_step, row_step, col_step,
                           to_row, to_column, <<>>)
             gTo == BoardGet(b, to_row, to_column)
         IN  IF w.ret # "True" THEN [ret |-> w.ret, etc |-> etc]
             ELSE IF gTo = "IndexError" THEN [ret |-> "IndexError", etc |-> etc]
             ELSE IF gTo # "." THEN [ret |-> "False", etc |-> etc]
             ELSE IF w.found # <<>> THEN [ret |-> "True", etc |-> w.found[1]]
             ELSE [ret |-> "True", etc |-> <<>>]

LightRookCanMove(self, to_row, to_column, b) ==
    LET row_diff == to_row - self.row
        col_diff == to_column - self.column
    IN  IF row_diff = 0 /\ Abs(col_diff) \in {1, 2}
        THEN LET step == IF col_diff > 0 THEN 1 ELSE -1 IN
             LineWalk(b, self.row, self.column + step, 0, step, Abs(col_diff) - 1)
        ELSE IF col_diff = 0 /\ Abs(row_diff) \in {1, 2}
        THEN LET step == IF row_diff > 0 THEN 1 ELSE -1 IN
             LineWalk(b, self.row + step, self.column, step, 0, Abs(row_diff) - 1)
        ELSE "False"

\* A faulty ShortBishop: the length of the diagonal move is not limited.
ShortBishopCanMoveAnyDistance(self, to_row, to_column, b) ==
    IF Abs(to_row - self.row) = Abs(to_column - self.column)
    THEN LET row_step == Step(to_row, self.row)
             col_step == Step(to_column, self.column)
         IN  DiagWalk(b, self.row + row_step, self.column + col_step,
                      row_step, col_step, to_row, to_column)
    ELSE "False"

ShortBishopCanMove(self, to_row, to_column, b) ==
    LET row_diff == Abs(to_row - self.row)
        col_diff == Abs(to_column - self.column)
    IN  IF row_diff = col_diff /\ row_diff \in {1, 2}
        THEN LET row_step == Step(to_row, self.row)
                 col_step == Step(to_column, self.column)
             IN  DiagWalk(b, self.row + row_step, self.column + col_step,
                          row_step, col_step, to_row, to_column)
        ELSE "False"

GuardianCanMove(self, to_row, to_column) ==
    LET row_diff == Abs(to_row - self.row)
        col_diff == Abs(to_column - self.column)
    IN  IF Max(row_diff, col_diff) = 1 THEN "True" ELSE "False"

\* figure.can_move(to_row, to_column, board): the dispatch on the class.
\* Returns [ret, etc].
can_move(self, to_row, to_column, b, figs, lm, etc) ==
    IF self.cls = "CheckerKing"
    THEN CheckerKingCanMove(self, to_row, to_column, b, figs, etc)
    ELSE [ret |->
            CASE self.cls = "Pawn" -> PawnCanMove(self, to_row, to_column, b, figs, lm)
              [] self.cls = "Rook" -> RookCanMove(self, to_row, to_column, b)
              [] self.cls = "Knight" -> KnightCanMove(self, to_row, to_column)
              [] self.cls = "Bishop" -> BishopCanMove(self, to_row, to_column, b)
              [] self.cls = "Queen" -> QueenCanMove(self, to_row, to_column, b)
              [] self.cls = "King" -> KingCanMove(self, to_row, to_column)
              [] self.cls = "Checker" -> CheckerCanMove(self, to_row, to_column, b, figs)
              [] self.cls = "LightRook" -> LightRookCanMove(self, to_row, to_column, b)
              [] self.cls = "ShortBishop" -> ShortBishopCanMove(self, to_row, to_column, b)
              [] self.cls = "Guardian" -> GuardianCanMove(self, to_row, to_column),
          etc |-> etc]

----------------------------------------------------------------------------
(* Board: the state as one record, so that a handler is a function from    *)
(* state to outcome.                                                       *)

Cur == [board |-> board, figures |-> figures, last_move |-> last_move,
        move_history |-> move_history, enemy_to_capture |-> enemy_to_capture,
        move_count |-> move_count]

\* An outcome: the exception class or "ok", which raise statement it was,
\* what the call returned, and the state the call leaves behind.
Outcome(result, err, ret, st) ==
    [result |-> result, err |-> err, ret |-> ret, st |-> st]

\* A faulty protection test: only the four cells that share a side with the
\* Guardian are looked at.
is_guardian_protected_orthogonal(figs, row, column, color) ==
    \E r \in Max(0, row - 1)..(Min(BoardSize, row + 2) - 1) :
      \E c \in Max(0, column - 1)..(Min(BoardSize, column + 2) - 1) :
        /\ (r = row) # (c = column)
        /\ HasKey(figs, r, c)
        /\ figs[<<r, c>>].color = color

\* Board.is_guardian_protected
is_guardian_protected(figs, row, column, color) ==
    \E r \in Max(0, row - 1)..(Min(BoardSize, row + 2) - 1) :
      \E c \in Max(0, column - 1)..(Min(BoardSize, column + 2) - 1) :
        /\ ~(r = row /\ c = column)
        /\ HasKey(figs, r, c)
        /\ figs[<<r, c>>].color = color

\* A faulty place_figure: an occupied cell is overwritten.
place_figure_overwrites(st, figure, position) ==
    LET p == algebraic_to_indices(position)
        g == BoardGet(st.board, p.row, p.column)
    IN  IF ~p.ok THEN Outcome("ValueError", "InvalidPosition", <<>>, st)
        ELSE IF g = "IndexError" THEN Outcome("IndexError", "", <<>>, st)
        ELSE Outcome("ok", "", <<>>,
                 [st EXCEPT
                    !.board = BoardSet(@, p.row, p.column,
                                       Symbol(figure.cls, figure.color)),
                    !.figures = FigSet(@, p.row, p.column,
                                       set_position(figure, p.row, p.column))])

\* Board.place_figure
place_figure(st, figure, position) ==
    LET p == algebraic_to_indices(position)
        g == BoardGet(st.board, p.row, p.column)
    IN  IF ~p.ok THEN Outcome("ValueError", "InvalidPosition", <<>>, st)
        ELSE IF g = "IndexError" THEN Outcome("IndexError", "", <<>>, st)
        ELSE IF g # "." THEN Outcome("ValueError", "OccupiedCell", <<>>, st)
        ELSE Outcome("ok", "", <<>>,
                 [st EXCEPT
                    !.board = BoardSet(@, p.row, p.column,
                                       Symbol(figure.cls, figure.color)),
                    !.figures = FigSet(@, p.row, p.column,
                                       set_position(figure, p.row, p.column))])

\* Board.remove_figure
remove_figure(st, position) ==
    LET p == algebraic_to_indices(position)
        g == BoardGet(st.board, p.row, p.column)
    IN  IF ~p.ok THEN Outcome("ValueError", "InvalidPosition", <<>>, st)
        ELSE IF g = "IndexError" THEN Outcome("IndexError", "", <<>>, st)
        ELSE IF g = "." THEN Outcome("ValueError", "EmptyCell", <<>>, st)
        ELSE IF ~HasKey(st.figures, p.row, p.column)
             \* the grid cell is already cleared when the del raises
             THEN Outcome("KeyError", "", <<>>,
                      [st EXCEPT !.board = BoardSet(@, p.row, p.column, ".")])
        ELSE Outcome("ok", "", <<>>,
                 [st EXCEPT !.board = BoardSet(@, p.row, p.column, "."),
                            !.figures = FigDel(@, p.row, p.column)])

\* Board.get_figure: never reads the grid, so it raises only on a string
\* that algebraic_to_indices refuses.
get_figure(st, position) ==
    LET p == algebraic_to_indices(position) IN
    IF ~p.ok THEN Outcome("ValueError", "InvalidPosition", <<>>, st)
    ELSE Outcome("ok", "", get_piece(st.figures, p.row, p.column), st)

----------------------------------------------------------------------------
(* Board.move_figure, in the order of the code.                            *)

PromotionChoices == {"Q", "R", "B", "N"}

\* promote_pawn's if/elif chain on the accepted choice.
PromotedClass(choice) ==
    CASE choice = "Q" -> "Queen"
      [] choice = "R" -> "Rook"
      [] choice = "B" -> "Bishop"
      [] choice = "N" -> "Knight"

\* Board.promote_pawn, given the choice input() finally returns.
promote_pawn(st, row, column, color, choice) ==
    [st EXCEPT
       !.board = BoardSet(@, row, column, Symbol(PromotedClass(choice), color)),
       !.figures = FigSet(@, row, column,
                          Figure(PromotedClass(choice), color, row, column))]

\* A faulty far-rank test: row 0 for both colours.
FarRankTopOnly(color, to_row) == to_row = 0

\* The far-rank test of lines 402, 407 and 415.
FarRank(color, to_row) ==
    (color = "white" /\ to_row = 0) \/ (color = "black" /\ to_row = BoardSize - 1)

\* Faulty promotions: a Pawn on its far rank is promoted in every rule set.
ApplyPromotionsAnyRuleSet(gt, st, figure, to_row, to_column, choice) ==
    IF figure.cls = "Pawn" /\ FarRank(figure.color, to_row)
    THEN [st |-> promote_pawn(st, to_row, to_column, figure.color, choice),
          promo |-> "pawn"]
    ELSE [st |-> st, promo |-> "none"]

\* Lines 400-419: the three promotions that follow the bookkeeping.
\* Returns [st, promo].
ApplyPromotions(gt, st, figure, to_row, to_column, choice) ==
    IF gt = "chess" /\ figure.cls = "Pawn" /\ FarRank(figure.color, to_row)
    THEN [st |-> promote_pawn(st, to_row, to_column, figure.color, choice),
          promo |-> "pawn"]
    ELSE IF gt = "checkers" /\ figure.cls = "Checker" /\ FarRank(figure.color, to_row)
    THEN [st |-> [st EXCEPT
                    !.figures = FigSet(@, to_row, to_column,
                        Figure("CheckerKing", figure.color, to_row, to_column)),
                    !.board = BoardSet(@, to_row, to_column,
                        Symbol("CheckerKing", figure.color))],
          promo |-> "checker"]
    ELSE IF gt = "modified_chess" /\ figure.cls = "LightRook" /\ FarRank(figure.color, to_row)
    THEN [st |-> [st EXCEPT
                    !.figures = FigSet(@, to_row, to_column,
                        Figure("Rook", figure.color, to_row, to_column)),
                    !.board = BoardSet(@, to_row, to_column,
                        Symbol("Rook", figure.color))],
          promo |-> "lightrook"]
    ELSE [st |-> st, promo |-> "none"]

\* A faulty special capture: the grid cell is cleared and the mapping
\* entry is left behind.
CaptureAtGridOnly(st, row, column) ==
    [result |-> "ok",
     st |-> [st EXCEPT !.board = BoardSet(@, row, column, ".")],
     captured |-> get_piece(st.figures, row, column)]

\* One special capture (lines 362-363, 370-372, 375-378): the piece at
\* (row, column) is read with get_piece, its grid cell cleared, its mapping
\* entry deleted.  The del raises KeyError after the grid was written.
\* Returns [result, st, captured].
CaptureAt(st, row, column) ==
    LET cleared == [st EXCEPT !.board = BoardSet(@, row, column, ".")] IN
    IF ~HasKey(st.figures, row, column)
    THEN [result |-> "KeyError", st |-> cleared, captured |-> <<>>]
    ELSE [result |-> "ok",
          st |-> [cleared EXCEPT !.figures = FigDel(@, row, column)],
          captured |-> get_piece(st.figures, row, column)]

\* Lines 354-378: en passant (chess only), the Checker's jump and the
\* CheckerKing's pending capture (checkers only).
\* Returns [result, st, captured, capture].
SpecialCaptures(gt, st, figure, from_row, from_column, to_row, to_column) ==
    LET plain == [result |-> "ok", st |-> st,
                  captured |-> get_piece(st.figures, to_row, to_column),
                  capture |-> "none"]
        lm == st.last_move
        ep == /\ gt = "chess"
              /\ figure.cls = "Pawn"
              /\ Abs(to_column - from_column) = 1
              /\ BoardGet(st.board, to_row, to_column) = "."
              /\ EnPassantMatch(lm, from_row, to_column)
        afterEp == IF ep
                   THEN LET c == CaptureAt(st, LastTo(lm)[1], LastTo(lm)[2]) IN
                        [result |-> c.result, st |-> c.st,
                         captured |-> c.captured, capture |-> "en_passant"]
                   ELSE plain
        s1 == afterEp.st
        jump == gt = "checkers" /\ figure.cls = "Checker" /\ Abs(to_row - from_row) = 2
        chain == /\ gt = "checkers"
                 /\ figure.cls = "CheckerKing"
                 /\ s1.enemy_to_capture # <<>>
    IN  IF afterEp.result # "ok" THEN afterEp
        ELSE IF jump
        THEN LET c == CaptureAt(s1, (from_row + to_row) \div 2,
                                (from_column + to_column) \div 2) IN
             [result |-> c.result, st |-> c.st,
              captured |-> c.captured, capture |-> "jump"]
        ELSE IF chain
        THEN LET c == CaptureAt(s1, s1.enemy_to_capture[1], s1.enemy_to_capture[2]) IN
             [result |-> c.result,
              st |-> IF c.result = "ok"
                     THEN [c.st EXCEPT !.enemy_to_capture = <<>>] ELSE c.st,
              captured |-> c.captured, capture |-> "chain"]
        ELSE afterEp

\* A faulty destination check: the occupant is removed before its colour
\* is compared with the mover's.
ClearDestinationRemovesFirst(st, figure, to_position, to_row, to_column) ==
    LET rm == remove_figure(st, to_position) IN
    IF BoardGet(st.board, to_row, to_column) = "." THEN Outcome("ok", "", <<>>, st)
    ELSE IF ~HasKey(st.figures, to_row, to_column)
         THEN Outcome("KeyError", "", <<>>, rm.st)
    ELSE IF st.figures[<<to_row, to_column>>].color = figure.color
         THEN Outcome("ValueError", "OccupiedBySelf", <<>>, rm.st)
    ELSE rm

\* A faulty destination check: the occupant is taken off whatever its
\* colour.
ClearDestinationCapturesOwn(st, figure, to_position, to_row, to_column) ==
    IF BoardGet(st.board, to_row, to_column) = "." THEN Outcome("ok", "", <<>>, st)
    ELSE IF ~HasKey(st.figures, to_row, to_column)
         THEN Outcome("KeyError", "", <<>>, st)
    ELSE remove_figure(st, to_position)

\* Lines 380-384: a destination still occupied after the special captures
\* holds either the mover's own piece (ValueError) or a piece that
\* remove_figure takes off.
ClearDestination(st, figure, to_position, to_row, to_column) ==
    IF BoardGet(st.board, to_row, to_column) = "." THEN Outcome("ok", "", <<>>, st)
    ELSE IF ~HasKey(st.figures, to_row, to_column)
         THEN Outcome("KeyError", "", <<>>, st)
    ELSE IF st.figures[<<to_row, to_column>>].color = figure.color
         THEN Outcome("ValueError", "OccupiedBySelf", <<>>, st)
    ELSE remove_figure(st, to_position)

\* Lines 386-398: relocation, Last Move, the history entry, the counter.
\* The entry's last_move field receives self.last_move AFTER line 392 has
\* overwritten it with this move.
Relocate(st, figure, from_position, to_position, from_row, from_column, to_row, to_column, captured, snapshot, current_player) ==
    LET moved == set_position(figure, to_row, to_column)
        b1 == BoardSet(st.board, from_row, from_column, ".")
        f1 == FigSet(FigDel(st.figures, from_row, from_column),
                     to_row, to_column, moved)
        b2 == BoardSet(b1, to_row, to_column, Symbol(figure.cls, figure.color))
        new_last == << <<from_row, from_column>>, <<to_row, to_column>>, moved >>
        entry == [from_pos |-> from_position, to_pos |-> to_position,
                  moved_figure |-> moved, captured_figure |-> captured,
                  last_move |-> new_last, board_state |-> snapshot,
                  current_player |-> current_player]
    IN  [st EXCEPT !.board = b2, !.figures = f1, !.last_move = new_last,
                   !.move_history = Append(@, entry),
                   !.move_count = @ + 1]

\* Lines 351-419, entered once every check of lines 330-349 has passed.
\* Returns an Outcome whose ret is <<capture, promo, captured>> on success.
MoveExecute(gt, st, figure, from_position, to_position, from_row, from_column, to_row, to_column, current_player, choice) ==
    LET snapshot == <<st.board, st.figures>>
        sp == SpecialCaptures(gt, st, figure, from_row, from_column, to_row, to_column)
        s1 == sp.st
        gTo == BoardGet(s1.board, to_row, to_column)
        cd == ClearDestination(s1, figure, to_position, to_row, to_column)
        s2 == cd.st
        s3 == Relocate(s2, figure, from_position, to_position, from_row,
                       from_column, to_row, to_column, sp.captured, snapshot,
                       current_player)
        pr == ApplyPromotions(gt, s3, figure, to_row, to_column, choice)
        capture == IF sp.capture = "none" /\ gTo # "." THEN "generic" ELSE sp.capture
    IN  IF sp.result # "ok" THEN Outcome(sp.result, "", <<>>, s1)
        ELSE IF cd.result # "ok" THEN cd
        ELSE IF ~HasKey(s2.figures, from_row, from_column)
             \* del self.figures[(from_row, from_column)] after its cell was cleared
             THEN Outcome("KeyError", "", <<>>,
                      [s2 EXCEPT !.board = BoardSet(@, from_row, from_column, ".")])
        ELSE Outcome("ok", "", <<capture, pr.promo, sp.captured>>, pr.st)

\* Board.move_figure
move_figure(gt, st, from_position, to_position, current_player, choice) ==
    LET pf == algebraic_to_indices(from_position)
        pt == algebraic_to_indices(to_position)
        from_row == pf.row
        from_column == pf.column
        to_row == pt.row
        to_column == pt.column
        gFrom == BoardGet(st.board, from_row, from_column)
        figure == st.figures[<<from_row, from_column>>]
        cm == can_move(figure, to_row, to_column, st.board, st.figures,
                       st.last_move, st.enemy_to_capture)
        st1 == [st EXCEPT !.enemy_to_capture = cm.etc]
        gTo == BoardGet(st.board, to_row, to_column)
        target == st.figures[<<to_row, to_column>>]
    IN  IF ~pf.ok \/ ~pt.ok THEN Outcome("ValueError", "InvalidPosition", <<>>, st)
        ELSE IF gFrom = "IndexError" THEN Outcome("IndexError", "", <<>>, st)
        ELSE IF gFrom = "." THEN Outcome("ValueError", "EmptyCell", <<>>, st)
        ELSE IF ~HasKey(st.figures, from_row, from_column)
             THEN Outcome("KeyError", "", <<>>, st)
        ELSE IF figure.color # current_player
             THEN Outcome("ValueError", "WrongOwner", <<>>, st)
        ELSE IF cm.ret \in {"IndexError", "KeyError"} THEN Outcome(cm.ret, "", <<>>, st1)
        ELSE IF cm.ret = "False" THEN Outcome("ValueError", "IllegalMove", <<>>, st1)
        ELSE IF gTo = "IndexError" THEN Outcome("IndexError", "", <<>>, st1)
        ELSE IF gTo # "." /\ ~HasKey(st.figures, to_row, to_column)
             THEN Outcome("KeyError", "", <<>>, st1)
        ELSE IF /\ gTo # "."
                /\ target.cls = "Guardian"
                /\ is_guardian_protected(st.figures, to_row, to_column, target.color)
             THEN Outcome("ValueError", "ProtectedGuardian", <<>>, st1)
        ELSE MoveExecute(gt, st1, figure, from_position, to_position, from_row,
                         from_column, to_row, to_column, current_player, choice)

\* Faulty undos.  The first restores the grid and leaves the mapping; the
\* second takes the oldest entry of the history; the third leaves the
\* counter; the fourth decrements the counter before it looks at the
\* history.
undo_move_keeps_figures(st) ==
    IF st.move_history = <<>> THEN Outcome("ok", "", <<>>, st)
    ELSE LET n == Len(st.move_history)
             entry == st.move_history[n]
         IN  Outcome("ok", "", <<entry.current_player>>,
                 [st EXCEPT !.move_history = SubSeq(@, 1, n - 1),
                            !.board = entry.board_state[1],
                            !.last_move = entry.last_move,
                            !.move_count = @ - 1])

undo_move_fifo(st) ==
    IF st.move_history = <<>> THEN Outcome("ok", "", <<>>, st)
    ELSE LET entry == Head(st.move_history)
         IN  Outcome("ok", "", <<entry.current_player>>,
                 [st EXCEPT !.move_history = Tail(@),
                            !.board = entry.board_state[1],
                            !.figures = entry.board_state[2],
                            !.last_move = entry.last_move,
                            !.move_count = @ - 1])

undo_move_keeps_count(st) ==
    IF st.move_history = <<>> THEN Outcome("ok", "", <<>>, st)
    ELSE LET n == Len(st.move_history)
             entry == st.move_history[n]
         IN  Outcome("ok", "", <<entry.current_player>>,
                 [st EXCEPT !.move_history = SubSeq(@, 1, n - 1),
                            !.board = entry.board_state[1],
                            !.figures = entry.board_state[2],
                            !.last_move = entry.last_move])

undo_move_counts_first(st) ==
    IF st.move_history = <<>>
    THEN Outcome("ok", "", <<>>, [st EXCEPT !.move_count = @ - 1])
    ELSE LET n == Len(st.move_history)
             entry == st.move_history[n]
         IN  Outcome("ok", "", <<entry.current_player>>,
                 [st EXCEPT !.move_history = SubSeq(@, 1, n - 1),
                            !.board = entry.board_state[1],
                            !.figures = entry.board_state[2],
                            !.last_move = entry.last_move,
                            !.move_count = @ - 1])

\* Board.undo_move: ret is <<player>> or <<>> (None).  restore_state sets
\* last_move from the entry and line 460 sets it again, to the same value.
undo_move(st) ==
    IF st.move_history = <<>> THEN Outcome("ok", "", <<>>, st)
    ELSE LET n == Len(st.move_history)
             entry == st.move_history[n]
         IN  Outcome("ok", "", <<entry.current_player>>,
                 [st EXCEPT !.move_history = SubSeq(@, 1, n - 1),
                            !.board = entry.board_state[1],
                            !.figures = entry.board_state[2],
                            !.last_move = entry.last_move,
                            !.move_count = @ - 1])

\* A faulty threat test: pieces of every colour are asked, the player's own
\* among them.
is_position_under_threat_any_color(st, row, column, opponent_color) ==
    LET calls == {can_move(st.figures[k], row, column, st.board, st.figures,
                           st.last_move, st.enemy_to_capture) :
                    k \in DOMAIN st.figures}
        rets == {cm.ret : cm \in calls}
    IN  [hit |-> "True" \in rets, raises |-> rets \ {"True", "False"},
         etcs |-> {cm.etc : cm \in calls}]

\* Board.is_position_under_threat: every piece of opponent_color is asked
\* whether it can move onto (row, column).  hit: one of them answers True;
\* raises: the exceptions their can_move calls can raise.  The dict is
\* walked in insertion order, which the mapping here does not keep: when
\* both a True and an exception are among the answers, which one the loop
\* meets first is not known.  etcs: the values the can_move calls leave in
\* board.enemy_to_capture.
is_position_under_threat(st, row, column, opponent_color) ==
    LET calls == {can_move(st.figures[k], row, column, st.board, st.figures,
                           st.last_move, st.enemy_to_capture) :
                    k \in {j \in DOMAIN st.figures :
                             st.figures[j].color = opponent_color}}
        rets == {cm.ret : cm \in calls}
    IN  [hit |-> "True" \in rets, raises |-> rets \ {"True", "False"},
         etcs |-> {cm.etc : cm \in calls}]

\* Board.get_threatened_figures: the set of Outcomes the call can have.
\* ret is <<threatened, king_under_check>>, threatened as a set (the list
\* holds each position once).  The only field the call can write is
\* enemy_to_capture, through CheckerKing.can_move; which of the can_move
\* calls is the last to write it depends on the order of the dict, so each
\* value one of them leaves is a possible outcome.  Where no can_move
\* raises and none writes, the set has one element.
get_threatened_figures(st, current_player) ==
    LET opponent_color == IF current_player = "white" THEN "black" ELSE "white"
        own == {pos \in DOMAIN st.figures : st.figures[pos].color = current_player}
        t(pos) == is_position_under_threat(st, pos[1], pos[2], opponent_color)
        threatened == {pos \in own : t(pos).hit}
        king_under_check == \E pos \in threatened : st.figures[pos].cls = "King"
        raised == UNION {t(pos).raises : pos \in own}
        completes == \A pos \in own : t(pos).raises # {} => t(pos).hit
        after == {[st EXCEPT !.enemy_to_capture = e] :
                    e \in {st.enemy_to_capture} \cup UNION {t(pos).etcs : pos \in own}}
    IN  {Outcome(e, "", <<>>, s) : e \in raised, s \in after}
        \cup (IF completes
              THEN {Outcome("ok", "", <<threatened, king_under_check>>, s) : s \in after}
              ELSE {})

----------------------------------------------------------------------------
(* Inputs.                                                                 *)

GameTypes == {"chess", "checkers", "modified_chess"}

Str(l, d) == <<l, d>>

\* Squares the calls are made with: files A-C, ranks 5-8 of the board
\* (rows 0-3; white moves towards row 0).
Squares == {Str(l, d) : l \in {"A", "B", "C"}, d \in {"5", "6", "7", "8"}}

\* Letter + digit strings outside the board, lower-case squares, and
\* strings that are no letter + digit.
OffBoard == {Str("A", "9"), Str("C", "9"), Str("A", "0"), Str("I", "8"),
             Str("I", "6"), Str("a", "9")}
LowerSquares == {Str("a", "7"), Str("c", "8")}
Malformed == {<<>>, <<"A">>, <<"1", "A">>, <<"A", "1", "1">>, <<"A", "A">>}
RawPositions == Squares \cup OffBoard \cup LowerSquares \cup Malformed

\* Positions asked of get_figure.
Probes == {Str("A", "1"), Str("H", "8"), Str("b", "5")}
RawProbes == Probes \cup {Str("A", "0"), Str("I", "1"), Str("a", "9"), <<>>}

\* Pieces and squares of the place_figure / remove_figure calls made after
\* setup.
EditPieces == {Figure("Pawn", "black", 0, 0)}
EditSquares == {Str("B", "7"), Str("C", "6")}
RawEditSquares == EditSquares \cup {Str("A", "9"), Str("A", "0")}

\* Squares of the moves made around the edited squares.
PlaceMoveSquares == {Str(l, d) : l \in {"B", "C"}, d \in {"5", "6", "7"}}

\* Start positions: each a list of place_figure calls on a new Board, the
\* way the setup_* methods build theirs, with few pieces so that the
\* positions that follow can all be explored.
P(cls, color, l, d) == <<Figure(cls, color, 0, 0), Str(l, d)>>

\* A white pawn beside the square a black pawn passes in its double step,
\* and a white pawn one step from its far rank.
ChessScenario ==
    << P("Pawn", "white", "B", "5"), P("Pawn", "black", "C", "7"),
       P("Pawn", "white", "A", "7") >>

\* A white Checker with a jump over B6 that lands one step from its far
\* rank, and a white CheckerKing with the same black Checker on its
\* diagonal.
CheckersScenario ==
    << P("Checker", "white", "C", "5"), P("Checker", "black", "B", "6"),
       P("CheckerKing", "white", "A", "5") >>

\* CheckersScenario with a second black Checker, which can step onto the
\* CheckerKing's diagonal behind the first.
CheckerKingScenario ==
    CheckersScenario \o << P("Checker", "black", "B", "8") >>

\* A black Guardian with a black Pawn beside it, and a white LightRook two
\* cells below the Guardian.
ModifiedScenario ==
    << P("Guardian", "black", "A", "8"), P("Pawn", "black", "B", "7"),
       P("LightRook", "white", "A", "6") >>

\* A white King beside a black Pawn and on the file of a black Rook, and a
\* black King.
KingScenario ==
    << P("King", "white", "B", "6"), P("Rook", "black", "B", "8"),
       P("Pawn", "black", "C", "7"), P("King", "black", "C", "5") >>

\* Squares of the calls made near the two far ranks: files A-C, ranks 1-3
\* and 6-8.
PromoSquares ==
    {Str(l, d) : l \in {"A", "B", "C"}, d \in {"1", "2", "3", "6", "7", "8"}}

\* A Rook, a Bishop and a Queen with pawns on and beside their lines.
SlidersChessScenario ==
    << P("Rook", "white", "A", "5"), P("Bishop", "white", "C", "5"),
       P("Queen", "black", "B", "8"), P("Pawn", "black", "B", "6"),
       P("Pawn", "white", "A", "7") >>

\* A LightRook and a ShortBishop of each colour with a pawn on their lines.
SlidersModifiedScenario ==
    << P("LightRook", "white", "A", "5"), P("ShortBishop", "white", "C", "5"),
       P("Pawn", "black", "B", "6"), P("LightRook", "black", "C", "8"),
       P("ShortBishop", "black", "A", "8") >>

\* Squares of the move commands of a session: files A-B, ranks 2-7, where
\* both colours have pieces to move from the start position.
MainSquares ==
    {Str(l, d) : l \in {"A", "B"}, d \in {"2", "3", "4", "5", "6", "7"}}

\* Checkers of both colours one step and one jump from their far ranks.
PromoCheckersScenario ==
    << P("Checker", "white", "A", "7"), P("Checker", "white", "C", "6"),
       P("Checker", "black", "B", "7"), P("Checker", "black", "C", "2"),
       P("Checker", "white", "B", "2"), P("Checker", "black", "A", "3") >>

\* LightRooks of both colours two cells from their far ranks, and a white
\* Pawn one step from its far rank.
PromoModifiedScenario ==
    << P("LightRook", "white", "A", "6"), P("LightRook", "black", "C", "3"),
       P("Pawn", "white", "B", "7") >>

Scenario(gt) ==
    CASE gt = "chess" -> ChessScenario
      [] gt = "checkers" -> CheckersScenario
      [] gt = "modified_chess" -> ModifiedScenario

\* place_figure applied to each element of a list in turn; a call that
\* raises ends the sequence with the pieces placed so far.
RECURSIVE PlaceAll(_, _)
PlaceAll(st, placements) ==
    IF placements = <<>> THEN st
    ELSE LET o == place_figure(st, Head(placements)[1], Head(placements)[2])
         IN  IF o.result # "ok" THEN o.st
             ELSE PlaceAll(o.st, Tail(placements))

\* The place_figure calls of the setup_* methods, in the order they are
\* made.  BackRank is the eight calls of one back rank, PawnRow the loop
\* over "ABCDEFGH".
BackRank(classes, color, d) ==
    [i \in 1..BoardSize |-> P(classes[i], color, UpperCase[i], d)]
PawnRow(color, d) ==
    [i \in 1..BoardSize |-> P("Pawn", color, UpperCase[i], d)]

\* Board.setup_chess
setup_chess ==
    BackRank(<<"Rook", "Knight", "Bishop", "Queen", "King", "Bishop",
               "Knight", "Rook">>, "white", "1")
    \o PawnRow("white", "2")
    \o BackRank(<<"Rook", "Knight", "Bishop", "Queen", "King", "Bishop",
                  "Knight", "Rook">>, "black", "8")
    \o PawnRow("black", "7")

\* A faulty loop of setup_checkers: the light cells are filled.
CheckerRowsLight(color, first) ==
    LET all == [i \in 1..(3 * BoardSize) |->
                  <<first + ((i - 1) \div BoardSize), (i - 1) % BoardSize>>]
        light == SelectSeq(all, LAMBDA rc : (rc[1] + rc[2]) % 2 = 0)
    IN  [i \in 1..Len(light) |->
           <<Figure("Checker", color, 0, 0),
             indices_to_algebraic(light[i][1], light[i][2])>>]

\* One double loop of setup_checkers: three rows from row first on, the
\* cells with row + col odd, each through indices_to_algebraic.
CheckerRows(color, first) ==
    LET all == [i \in 1..(3 * BoardSize) |->
                  <<first + ((i - 1) \div BoardSize), (i - 1) % BoardSize>>]
        dark == SelectSeq(all, LAMBDA rc : (rc[1] + rc[2]) % 2 = 1)
    IN  [i \in 1..Len(dark) |->
           <<Figure("Checker", color, 0, 0),
             indices_to_algebraic(dark[i][1], dark[i][2])>>]

\* Board.setup_checkers
setup_checkers == CheckerRows("white", 5) \o CheckerRows("black", 0)

\* Board.setup_modified_chess
setup_modified_chess ==
    BackRank(<<"LightRook", "Guardian", "ShortBishop", "Queen", "King",
               "ShortBishop", "Guardian", "LightRook">>, "white", "1")
    \o PawnRow("white", "2")
    \o BackRank(<<"LightRook", "Guardian", "ShortBishop", "Queen", "King",
                  "ShortBishop", "Guardian", "LightRook">>, "black", "8")
    \o PawnRow("black", "7")

\* Board.setup_board: the placements made for a game_type.
setup_board(gt) ==
    CASE gt = "chess" -> setup_chess
      [] gt = "checkers" -> setup_checkers
      [] gt = "modified_chess" -> setup_modified_chess
      [] OTHER -> <<>>

----------------------------------------------------------------------------
(* The state machine.                                                      *)

Idle == [name |-> "idle", result |-> "", err |-> "", ret |-> <<>>, args |-> <<>>]
Call(name, o, args) ==
    [name |-> name, result |-> o.result, err |-> o.err, ret |-> o.ret,
     args |-> args]

Snapshot(st) == [board |-> st.board, figures |-> st.figures,
                 move_count |-> st.move_count]

\* Board.__init__
Init ==
    /\ game_type \in GameTypes
    /\ board = create_board
    /\ figures = << >>
    /\ last_move = <<>>
    /\ move_history = <<>>
    /\ enemy_to_capture = <<>>
    /\ move_count = 0
    /\ main_current_player = "white"
    /\ op = Idle
    /\ gtrace = <<>>
    /\ dirty = FALSE
    /\ prev_last = <<>>
    /\ edits = 0

\* The fields of the Board take the values of st.
Becomes(st) ==
    /\ board' = st.board
    /\ figures' = st.figures
    /\ last_move' = st.last_move
    /\ move_history' = st.move_history
    /\ enemy_to_capture' = st.enemy_to_capture
    /\ move_count' = st.move_count

Changed(st) == st.board # board \/ st.figures # figures

\* The pieces of a start position are put on the new board.
SetupWith(placements) ==
    /\ op = Idle
    /\ figures = << >> /\ move_history = <<>> /\ edits = 0
    /\ Becomes(PlaceAll(Cur, placements))
    /\ op' = [Idle EXCEPT !.name = "setup", !.result = "ok"]
    /\ UNCHANGED <<main_current_player, game_type, gtrace, dirty, prev_last,
                   edits>>

Setup == SetupWith(Scenario(game_type))

\* Whether the origin checks of lines 333-339 let the call through.
OriginPasses(position, current_player) ==
    LET p == algebraic_to_indices(position) IN
    /\ p.ok
    /\ BoardGet(board, p.row, p.column) \notin {"IndexError", "."}
    /\ HasKey(figures, p.row, p.column)
    /\ figures[<<p.row, p.column>>].color = current_player

\* The destinations tried with an origin.  When the origin checks stop
\* the call, the destination is read by algebraic_to_indices alone (line
\* 331), so one well-formed destination stands for all of them.
Destinations(positions, from, current_player) ==
    IF OriginPasses(from, current_player) THEN positions
    ELSE {t \in positions : ~algebraic_to_indices(t).ok}
         \cup {CHOOSE t \in positions : algebraic_to_indices(t).ok}

\* move_figure(from, to, player); the promotion choice is asked for only
\* when promote_pawn runs.
MoveFigure(positions, maxMoves) ==
    /\ op = Idle
    /\ figures # << >>
    /\ \E from \in positions, player \in Colors :
       \E to \in Destinations(positions, from, player) :
       \E first \in {move_figure(game_type, Cur, from, to, player, "Q")} :
         /\ first.result = "ok" => Len(move_history) < maxMoves
         /\ \E choice \in IF first.result = "ok" /\ first.ret[2] = "pawn"
                          THEN PromotionChoices ELSE {"Q"} :
            \E o \in {IF choice = "Q" THEN first
                      ELSE move_figure(game_type, Cur, from, to, player, choice)} :
              /\ Becomes(o.st)
              /\ op' = Call("move", o,
                            IF o.result = "ok"
                            THEN <<from, to, player,
                                   IF o.ret[2] = "pawn" THEN <<choice>> ELSE <<>> >>
                            ELSE <<>>)
              /\ IF o.result = "ok"
                 THEN /\ gtrace' = Append(gtrace,
                            [pre |-> Snapshot(Cur), post |-> Snapshot(o.st),
                             player |-> player, edited |-> dirty,
                             capture |-> o.ret[1], promo |-> o.ret[2]])
                      /\ dirty' = FALSE
                      /\ prev_last' = <<last_move>>
                 ELSE /\ gtrace' = gtrace
                      /\ dirty' = (dirty \/ Changed(o.st))
                      /\ prev_last' = prev_last
    /\ UNCHANGED <<main_current_player, game_type, edits>>

UndoMove ==
    /\ op = Idle
    /\ figures # << >>
    /\ \E o \in {undo_move(Cur)} :
       /\ Becomes(o.st)
       /\ op' = Call("undo", o, IF o.ret # <<>>
                                THEN <<gtrace[Len(gtrace)].capture,
                                       gtrace[Len(gtrace)].promo>>
                                ELSE <<>>)
       /\ IF o.ret # <<>>
          THEN /\ gtrace' = SubSeq(gtrace, 1, Len(gtrace) - 1)
               /\ dirty' = gtrace[Len(gtrace)].edited
               /\ prev_last' = <<>>
          ELSE UNCHANGED <<gtrace, dirty, prev_last>>
    /\ UNCHANGED <<main_current_player, game_type, edits>>

PlaceFigure(positions) ==
    /\ op = Idle
    /\ figures # << >>
    /\ edits < MaxEdits
    /\ \E fig \in EditPieces, position \in positions :
       \E o \in {place_figure(Cur, fig, position)} :
         /\ Becomes(o.st)
         /\ op' = Call("place", o, IF o.result = "ok" THEN <<fig, position>> ELSE <<>>)
         /\ dirty' = (dirty \/ Changed(o.st))
         /\ edits' = IF Changed(o.st) THEN edits + 1 ELSE edits
    /\ UNCHANGED <<main_current_player, game_type, gtrace, prev_last>>

RemoveFigure(positions) ==
    /\ op = Idle
    /\ figures # << >>
    /\ edits < MaxEdits
    /\ \E position \in positions :
       \E o \in {remove_figure(Cur, position)} :
         /\ Becomes(o.st)
         /\ op' = Call("remove", o, IF o.result = "ok" THEN <<position>> ELSE <<>>)
         /\ dirty' = (dirty \/ Changed(o.st))
         /\ edits' = IF Changed(o.st) THEN edits + 1 ELSE edits
    /\ UNCHANGED <<main_current_player, game_type, gtrace, prev_last>>

GetFigure(positions) ==
    /\ op = Idle
    /\ figures # << >>
    /\ \E position \in positions :
       \E o \in {get_figure(Cur, position)} :
         /\ Becomes(o.st)
         /\ op' = Call("get_figure", o, <<position>>)
    /\ UNCHANGED <<main_current_player, game_type, gtrace, dirty, prev_last,
                   edits>>

\* board.get_threatened_figures(player), as display_with_threats calls it.
GetThreatened ==
    /\ op = Idle
    /\ figures # << >>
    /\ \E player \in Colors :
       \E o \in get_threatened_figures(Cur, player) :
         /\ Becomes(o.st)
         /\ op' = Call("threats", o, <<player>>)
    /\ UNCHANGED <<main_current_player, game_type, gtrace, dirty, prev_last,
                   edits>>

\* "black" if current_player == "white" else "white" (main.py:80).
OtherPlayer(color) == IF color = "white" THEN "black" ELSE "white"

\* The record of a command that ended the session: an exception other than
\* ValueError left the loop of main.
Exit(result) ==
    [name |-> "exit", result |-> result, err |-> "", ret |-> <<>>, args |-> <<>>]

\* A faulty move command: the turn passes after a rejected move as well.
MainMove_passes_turn_always(positions, maxMoves) ==
    /\ op = Idle
    /\ figures # << >>
    /\ \E from \in positions, to \in positions :
       \E o \in {move_figure(game_type, Cur, from, to, main_current_player, "Q")} :
         /\ OriginPasses(from, main_current_player)
         /\ o.result = "ok" => Len(move_history) < maxMoves
         /\ Becomes(o.st)
         /\ main_current_player' = OtherPlayer(main_current_player)
         /\ op' = Call("move", o,
                       IF o.result = "ok"
                       THEN <<from, to, main_current_player, <<>> >> ELSE <<>>)
         /\ IF o.result = "ok"
            THEN /\ gtrace' = Append(gtrace,
                       [pre |-> Snapshot(Cur), post |-> Snapshot(o.st),
                        player |-> main_current_player, edited |-> dirty,
                        capture |-> o.ret[1], promo |-> o.ret[2]])
                 /\ dirty' = FALSE
                 /\ prev_last' = <<last_move>>
            ELSE /\ gtrace' = gtrace
                 /\ dirty' = (dirty \/ Changed(o.st))
                 /\ prev_last' = prev_last
    /\ UNCHANGED <<game_type, edits>>

\* One pass of main's loop with a move command "from to" (main.py:66-83):
\* get_figure(from) and the two checks of main, move_figure for
\* current_player, then the change of turn and display_with_threats for
\* the new player.  A ValueError is caught and printed; any other
\* exception ends the session.  A promotion is answered with "Q".
MainMove(positions, maxMoves) ==
    /\ op = Idle
    /\ figures # << >>
    /\ \E from \in positions, to \in positions :
       \E g \in {get_figure(Cur, from)} :
         IF g.result # "ok" \/ g.ret = <<>> \/ g.ret[1].color # main_current_player
         THEN /\ op' = [name |-> "move", result |-> "ValueError",
                        err |-> IF g.result # "ok" THEN g.err
                                ELSE IF g.ret = <<>> THEN "EmptyCell"
                                ELSE "WrongOwner",
                        ret |-> <<>>, args |-> <<>>]
              /\ UNCHANGED <<board, figures, last_move, move_history,
                             enemy_to_capture, move_count, main_current_player,
                             gtrace, dirty, prev_last>>
         ELSE \E o \in {move_figure(game_type, Cur, from, to, main_current_player, "Q")} :
              /\ o.result = "ok" => Len(move_history) < maxMoves
              /\ IF o.result = "ok"
                 THEN \E t \in get_threatened_figures(o.st, OtherPlayer(main_current_player)) :
                      /\ Becomes(t.st)
                      /\ main_current_player' = OtherPlayer(main_current_player)
                      /\ op' = IF t.result = "ok"
                               THEN Call("move", o, <<from, to, main_current_player, <<>> >>)
                               ELSE Exit(t.result)
                      /\ gtrace' = Append(gtrace,
                            [pre |-> Snapshot(Cur), post |-> Snapshot(o.st),
                             player |-> main_current_player, edited |-> dirty,
                             capture |-> o.ret[1], promo |-> o.ret[2]])
                      /\ dirty' = FALSE
                      /\ prev_last' = <<last_move>>
                 ELSE /\ Becomes(o.st)
                      /\ main_current_player' = main_current_player
                      /\ op' = IF o.result = "ValueError"
                               THEN Call("move", o, <<>>) ELSE Exit(o.result)
                      /\ gtrace' = gtrace
                      /\ dirty' = (dirty \/ Changed(o.st))
                      /\ prev_last' = prev_last
    /\ UNCHANGED <<game_type, edits>>

\* One pass of main's loop with the command "undo" (main.py:57-61).
MainUndo ==
    /\ op = Idle
    /\ figures # << >>
    /\ \E o \in {undo_move(Cur)} :
       /\ Becomes(o.st)
       /\ main_current_player' = IF o.ret # <<>> THEN o.ret[1]
                                 ELSE main_current_player
       /\ op' = Call("undo", o, IF o.ret # <<>>
                                THEN <<gtrace[Len(gtrace)].capture,
                                       gtrace[Len(gtrace)].promo>>
                                ELSE <<>>)
       /\ IF o.ret # <<>>
          THEN /\ gtrace' = SubSeq(gtrace, 1, Len(gtrace) - 1)
               /\ dirty' = gtrace[Len(gtrace)].edited
               /\ prev_last' = <<>>
          ELSE UNCHANGED <<gtrace, dirty, prev_last>>
    /\ UNCHANGED <<game_type, edits>>

\* One pass of main's loop with the command "hint" (main.py:63-65).
MainHint ==
    /\ op = Idle
    /\ figures # << >>
    /\ \E t \in get_threatened_figures(Cur, main_current_player) :
       /\ Becomes(t.st)
       /\ op' = IF t.result = "ok" THEN Call("threats", t, <<main_current_player>>)
                ELSE Exit(t.result)
    /\ UNCHANGED <<main_current_player, game_type, gtrace, dirty, prev_last,
                   edits>>

\* The call's result has been taken by the caller.
Return ==
    /\ op # Idle
    /\ op' = Idle
    /\ UNCHANGED <<main_current_player, game_type, board, figures, last_move,
                   move_history,
                   enemy_to_capture, move_count, gtrace, dirty, prev_last,
                   edits>>

\* Play: moves, undos and queries, with squares of the board.
Next ==
    \/ Setup
    \/ MoveFigure(Squares, MaxMoves)
    \/ UndoMove
    \/ GetFigure(Probes)
    \/ Return

Spec == Init /\ [][Next]_vars

\* Play with place_figure and remove_figure calls in between.
NextEdit ==
    \/ Setup
    \/ MoveFigure(Squares, MaxEditMoves)
    \/ UndoMove
    \/ PlaceFigure(EditSquares)
    \/ RemoveFigure(EditSquares)
    \/ Return

SpecEdit == Init /\ [][NextEdit]_vars

\* The same calls made with any string.
NextRaw ==
    \/ Setup
    \/ MoveFigure(RawPositions, MaxRawMoves)
    \/ UndoMove
    \/ PlaceFigure(RawEditSquares)
    \/ RemoveFigure(RawEditSquares)
    \/ GetFigure(RawProbes)
    \/ Return

SpecRaw == Init /\ [][NextRaw]_vars

\* Play in each rule set on a board that holds the three pawns of
\* ChessScenario.
NextPawns ==
    \/ SetupWith(ChessScenario)
    \/ MoveFigure(Squares, MaxMoves)
    \/ UndoMove
    \/ Return

SpecPawns == Init /\ [][NextPawns]_vars

\* Play with the threat listing asked for between the moves; in chess the
\* board holds the two Kings of KingScenario.
NextThreats ==
    \/ SetupWith(IF game_type = "chess" THEN KingScenario ELSE Scenario(game_type))
    \/ MoveFigure(Squares, MaxThreatMoves)
    \/ UndoMove
    \/ GetThreatened
    \/ Return

SpecThreats == Init /\ [][NextThreats]_vars

\* Play from the start position setup_board builds.
SetupBoard == SetupWith(setup_board(game_type))

NextStart ==
    \/ SetupBoard
    \/ MoveFigure(Squares, MaxStartMoves)
    \/ UndoMove
    \/ Return

SpecStart == Init /\ [][NextStart]_vars

\* Play in which the checkers board holds a CheckerKing with two enemy
\* pieces and a friendly one near its diagonals.
NextKings ==
    \/ SetupWith(IF game_type = "checkers" THEN CheckerKingScenario ELSE Scenario(game_type))
    \/ MoveFigure(Squares, MaxKingMoves)
    \/ UndoMove
    \/ Return

SpecKings == Init /\ [][NextKings]_vars

\* Play on the squares around the edited ones, with place_figure and
\* remove_figure calls in between.
NextPlace ==
    \/ Setup
    \/ MoveFigure(PlaceMoveSquares, MaxPlaceMoves)
    \/ PlaceFigure(EditSquares)
    \/ RemoveFigure(EditSquares)
    \/ Return

SpecPlace == Init /\ [][NextPlace]_vars

\* Play with the threat listing asked for between the moves, the checkers
\* board holding the pieces of CheckerKingScenario.
NextCheckers ==
    \/ SetupWith(IF game_type = "checkers" THEN CheckerKingScenario ELSE Scenario(game_type))
    \/ MoveFigure(Squares, MaxCheckersMoves)
    \/ UndoMove
    \/ GetThreatened
    \/ Return

SpecCheckers == Init /\ [][NextCheckers]_vars

\* Play near the far ranks.
NextPromo ==
    \/ SetupWith(CASE game_type = "checkers" -> PromoCheckersScenario
                   [] game_type = "modified_chess" -> PromoModifiedScenario
                   [] OTHER -> Scenario(game_type))
    \/ MoveFigure(PromoSquares, MaxPromoMoves)
    \/ UndoMove
    \/ Return

SpecPromo == Init /\ [][NextPromo]_vars

\* The loop of main goes on to the next command; there is none after the
\* session has ended.
MainReturn == op.name # "exit" /\ Return

\* A game session: main sets the board up and reads commands.
NextMain ==
    \/ SetupBoard
    \/ MainMove(MainSquares, MaxMainMoves)
    \/ MainUndo
    \/ MainHint
    \/ MainReturn

SpecMain == Init /\ [][NextMain]_vars

\* Play with the sliding pieces.
NextSliders ==
    \/ SetupWith(CASE game_type = "chess" -> SlidersChessScenario
                   [] game_type = "modified_chess" -> SlidersModifiedScenario
                   [] OTHER -> Scenario(game_type))
    \/ MoveFigure(Squares, MaxSliderMoves)
    \/ UndoMove
    \/ Return

SpecSliders == Init /\ [][NextSliders]_vars

----------------------------------------------------------------------------
(* Properties of move_figure and undo_move.  A step with op = Idle and     *)
(* op'.name = n is a call of n; the primed variables are the state the     *)
(* call leaves behind.                                                     *)

\* C1: an undo_move call that undoes a move leaves the grid and the
\* mapping exactly as they were immediately before that move, whatever the
\* move captured (plainly, en passant, by a jump, by a flying-king capture)
\* and whatever promotion followed it.
C1_UndoRestoresPosition ==
    [][(op = Idle /\ op'.name = "undo" /\ op'.ret # <<>>) =>
         /\ board' = gtrace[Len(gtrace)].pre.board
         /\ figures' = gtrace[Len(gtrace)].pre.figures]_vars

\* An en-passant capture has just been undone.
C1_Witness ==
    /\ op.name = "undo"
    /\ op.args = <<"en_passant", "none">>

\* C2: an undo_move call that undoes a move restores Last Move to the
\* value it had immediately before that move (none when the undone move
\* was the first move of the game).
C2_UndoRestoresLastMove ==
    [][(op = Idle /\ op'.name = "undo" /\ op'.ret # <<>> /\ prev_last # <<>>) =>
         last_move' = prev_last[1]]_vars

\* C3: a move_figure call rejected with ValueError (empty origin, wrong
\* owner, illegal move, protected Guardian, own piece on the destination)
\* leaves the grid, the mapping, Last Move, the move counter and the
\* length of the history as they were.
C3_RejectedMoveChangesNothing ==
    [][(op = Idle /\ op'.name = "move" /\ op'.result = "ValueError") =>
         /\ board' = board
         /\ figures' = figures
         /\ last_move' = last_move
         /\ move_count' = move_count
         /\ Len(move_history') = Len(move_history)]_vars

\* A move onto the mover's own piece was rejected after a move had been
\* executed.
C3_Witness ==
    /\ op.name = "move"
    /\ op.err = "OccupiedBySelf"
    /\ move_count > 0

\* C4: after any sequence of place_figure, remove_figure, move_figure and
\* undo_move calls made with squares A1..H8, a grid cell is occupied iff
\* the mapping has an entry for its (row, column), that entry's symbol is
\* the one in the grid, and the entry's own position is its key.
C4_GridMatchesMapping ==
    /\ DOMAIN figures \subseteq Cells
    /\ \A cell \in Cells :
         IF board[cell] = "."
         THEN cell \notin DOMAIN figures
         ELSE /\ cell \in DOMAIN figures
              /\ board[cell] = Symbol(figures[cell].cls, figures[cell].color)
              /\ <<figures[cell].row, figures[cell].column>> = cell

\* A capturing move made after a place_figure or remove_figure call has
\* just been undone.
C4_Witness ==
    /\ op.name = "undo"
    /\ op.ret # <<>>
    /\ op.args[1] # "none"
    /\ edits > 0

\* C5: undo_move is last-in-first-out at any depth: each undo returns the
\* player of the latest move not yet undone, brings the grid, the mapping
\* and the counter back to what they were before that move, and, when an
\* earlier move remains and nothing but moves touched the board in
\* between, that is the state the earlier move left behind.
C5_UndoIsLifo ==
    [][(op = Idle /\ op'.name = "undo" /\ gtrace # <<>>) =>
         LET m == Len(gtrace) IN
         /\ op'.ret = <<gtrace[m].player>>
         /\ gtrace' = SubSeq(gtrace, 1, m - 1)
         /\ Len(move_history') = m - 1
         /\ Snapshot(Cur)' = gtrace[m].pre
         /\ (m >= 2 /\ ~gtrace[m].edited) => Snapshot(Cur)' = gtrace[m - 1].post]_vars

\* The second of two moves has just been undone and the first one stands.
C5_Witness ==
    /\ op.name = "undo"
    /\ op.ret # <<>>
    /\ Len(gtrace) = 1
    /\ ~dirty
    /\ Snapshot(Cur) = gtrace[1].post

\* C6: the move counter equals the length of the history in every state,
\* is never negative, goes up by one with each executed move, down by one
\* with each undo that undoes a move, and stays for a rejected move and for
\* an undo on an empty history.
C6_CounterIsHistoryLength ==
    [][/\ move_count = Len(move_history)
       /\ move_count' = Len(move_history')
       /\ move_count' = Len(gtrace')
       /\ move_count' >= 0
       /\ (op = Idle /\ op'.name = "move") =>
            move_count' = IF op'.result = "ok" THEN move_count + 1 ELSE move_count
       /\ (op = Idle /\ op'.name = "undo") =>
            move_count' = IF op'.ret # <<>> THEN move_count - 1 ELSE move_count]_vars

\* An undo has brought the counter from two down to one.
C6_Witness ==
    /\ op.name = "undo"
    /\ op.ret # <<>>
    /\ move_count = 1

\* C7: undo_move on an empty history returns none and changes nothing.
C7_UndoOnEmptyHistory ==
    [][(op = Idle /\ op'.name = "undo" /\ move_history = <<>>) =>
         /\ op'.result = "ok"
         /\ op'.ret = <<>>
         /\ Cur' = Cur
         /\ move_count' = 0]_vars

\* undo_move returned none on a board where a move had been made and
\* undone before.
C7_Witness ==
    /\ op.name = "undo"
    /\ op.result = "ok"
    /\ op.ret = <<>>
    /\ last_move # <<>>

\* C8: a position string is accepted iff it is one letter A-H (either
\* case) followed by one digit 1-8; "A0", "I1", "a9" and "" are rejected.
C8_ParsingAcceptsExactlyBoardSquares ==
    op.name = "get_figure" =>
      (op.result = "ok" <=>
         /\ Len(op.args[1]) = 2
         /\ op.args[1][1] \in {"A", "B", "C", "D", "E", "F", "G", "H",
                               "a", "b", "c", "d", "e", "f", "g", "h"}
         /\ op.args[1][2] \in {"1", "2", "3", "4", "5", "6", "7", "8"})

\* C9: a move_figure call whose two strings are a letter followed by a
\* digit ends executed or with ValueError, never with another failure, and
\* a call that is not executed leaves the board as it was.
C9_MoveEndsOkOrValueError ==
    [][(op = Idle /\ op'.name = "move" /\ op'.err # "InvalidPosition") =>
         /\ op'.result \in {"ok", "ValueError"}
         /\ op'.result # "ok" =>
              UNCHANGED <<board, figures, last_move, move_history, move_count>>]_vars

\* C10: in chess, when the last executed move was a pawn's two-rank
\* advance, an enemy pawn standing beside the advanced pawn may move onto
\* the square passed over: move_figure executes the move and the advanced
\* pawn is gone from the grid and from the mapping.
C10_EnPassantCaptures ==
    (/\ game_type = "chess"
     /\ prev_last # <<>>
     /\ LastPiece(last_move).cls = "Pawn"
     /\ Abs(LastTo(last_move)[1] - LastFrom(last_move)[1]) = 2) =>
      \A key \in DOMAIN figures :
        LET q == figures[key]
            adv == LastTo(last_move)
            passed == <<(LastFrom(last_move)[1] + adv[1]) \div 2, adv[2]>>
        IN  (/\ q.cls = "Pawn"
             /\ q.color # LastPiece(last_move).color
             /\ q.row = adv[1]
             /\ Abs(q.column - adv[2]) = 1) =>
              LET o == move_figure(game_type, Cur,
                                   indices_to_algebraic(q.row, q.column),
                                   indices_to_algebraic(passed[1], passed[2]),
                                   q.color, "Q")
              IN  /\ o.result = "ok"
                  /\ o.ret[1] = "en_passant"
                  /\ ~HasKey(o.st.figures, adv[1], adv[2])
                  /\ BoardGet(o.st.board, adv[1], adv[2]) = "."
                  /\ HasKey(o.st.figures, passed[1], passed[2])
                  /\ o.st.figures[passed] = set_position(q, passed[1], passed[2])
                  /\ BoardGet(o.st.board, passed[1], passed[2]) = Symbol("Pawn", q.color)

\* An en-passant capture has just been executed: the advanced pawn's
\* square is empty and the capturing pawn stands on the square passed over.
C10_Witness ==
    /\ game_type = "chess"
    /\ op.name = "move"
    /\ op.result = "ok"
    /\ op.ret[1] = "en_passant"
    /\ LastPiece(last_move).cls = "Pawn"
    /\ ~HasKey(figures, LastFrom(last_move)[1], LastTo(last_move)[2])

\* C11: a move that passes the origin and legality checks and whose
\* destination holds a Guardian is rejected with ProtectedGuardian, the
\* board unchanged, when a piece of the Guardian's colour stands on one of
\* the (up to 8) cells around the Guardian; when none does and the mover is
\* of the other colour, the move is executed and the mover stands where the
\* Guardian stood.
C11_GuardianProtection ==
    \A from \in DOMAIN figures, to \in DOMAIN figures :
      LET mover == figures[from]
          guardian == figures[to]
          friend == \E k \in DOMAIN figures :
                      /\ k # to
                      /\ Abs(k[1] - to[1]) <= 1
                      /\ Abs(k[2] - to[2]) <= 1
                      /\ figures[k].color = guardian.color
          o == move_figure(game_type, Cur,
                           indices_to_algebraic(from[1], from[2]),
                           indices_to_algebraic(to[1], to[2]),
                           mover.color, "Q")
      IN  (/\ from \in Cells /\ to \in Cells
           /\ guardian.cls = "Guardian"
           /\ can_move(mover, to[1], to[2], board, figures, last_move,
                       enemy_to_capture).ret = "True") =>
            IF friend
            THEN /\ o.result = "ValueError"
                 /\ o.err = "ProtectedGuardian"
                 /\ o.st = Cur
            ELSE mover.color # guardian.color =>
                   /\ o.result = "ok"
                   /\ o.ret[3] = <<guardian>>
                   /\ ~HasKey(o.st.figures, from[1], from[2])
                   /\ HasKey(o.st.figures, to[1], to[2])
                   /\ o.st.figures[to].color = mover.color
                   /\ DOMAIN o.st.figures = DOMAIN figures \ {from}

\* An unprotected Guardian has just been captured.
C11_Witness ==
    /\ op.name = "move"
    /\ op.result = "ok"
    /\ op.ret[3] # <<>>
    /\ op.ret[3][1].cls = "Guardian"

\* C12: in checkers a Checker's move is executed exactly when it is one
\* diagonal step forward onto an empty cell, or a two-step forward diagonal
\* jump over an enemy piece onto an empty cell; the step removes no piece,
\* the jump removes the piece on the midpoint and no other.
C12_CheckerMoves ==
    game_type = "checkers" =>
      \A from \in DOMAIN figures \cap Cells, to \in Cells :
        LET mover == figures[from]
            forward == IF mover.color = "white" THEN -1 ELSE 1
            mid == <<from[1] + forward, (from[2] + to[2]) \div 2>>
            step == /\ to[1] = from[1] + forward
                    /\ Abs(to[2] - from[2]) = 1
                    /\ board[to] = "."
            jump == /\ to[1] = from[1] + 2 * forward
                    /\ Abs(to[2] - from[2]) = 2
                    /\ board[to] = "."
                    /\ mid \in DOMAIN figures
                    /\ figures[mid].color # mover.color
            o == move_figure(game_type, Cur,
                             indices_to_algebraic(from[1], from[2]),
                             indices_to_algebraic(to[1], to[2]),
                             mover.color, "Q")
            gone == IF jump THEN {from, mid} ELSE {from}
        IN  mover.cls = "Checker" =>
              /\ o.result = "ok" <=> (step \/ jump)
              /\ o.result = "ok" =>
                   /\ DOMAIN o.st.figures = (DOMAIN figures \ gone) \cup {to}
                   /\ \A k \in DOMAIN figures \ gone :
                        o.st.figures[k] = figures[k] /\ o.st.board[k] = board[k]
                   /\ \A k \in gone : o.st.board[k] = "."
                   /\ o.st.figures[to].color = mover.color
                   /\ o.st.figures[to].cls \in {"Checker", "CheckerKing"}

\* A Checker has just jumped over an enemy piece.
C12_Witness ==
    /\ game_type = "checkers"
    /\ op.name = "move"
    /\ op.result = "ok"
    /\ op.ret[1] = "jump"
    /\ Cardinality(DOMAIN figures) = 2

\* C13: an executed move asks for the promotion choice exactly when the
\* rule set is chess and the piece moved is a Pawn that arrives on its far
\* rank (row 0 for white, row 7 for black); the destination then holds the
\* chosen variant (Q Queen, R Rook, B Bishop, N Knight) in the pawn's
\* colour.  In every other executed move nothing is asked and a Pawn stays
\* a Pawn.
C13_PawnPromotion ==
    [][(op = Idle /\ op'.name = "move" /\ op'.result = "ok") =>
         LET pf == algebraic_to_indices(op'.args[1])
             pt == algebraic_to_indices(op'.args[2])
             from == <<pf.row, pf.column>>
             to == <<pt.row, pt.column>>
             mover == figures[from]
             asked == op'.args[4]
             due == /\ game_type = "chess"
                    /\ mover.cls = "Pawn"
                    /\ \/ mover.color = "white" /\ to[1] = 0
                       \/ mover.color = "black" /\ to[1] = 7
             variant == CASE asked = <<"Q">> -> "Queen"
                          [] asked = <<"R">> -> "Rook"
                          [] asked = <<"B">> -> "Bishop"
                          [] asked = <<"N">> -> "Knight"
                          [] OTHER -> "none"
         IN  /\ (asked # <<>>) <=> due
             /\ Len(asked) <= 1
             /\ due =>
                  /\ figures'[to] = [cls |-> variant, color |-> mover.color,
                                     row |-> to[1], column |-> to[2]]
                  /\ board'[to] = Symbol(variant, mover.color)
             /\ ~due =>
                  /\ figures'[to].color = mover.color
                  /\ mover.cls = "Pawn" => figures'[to].cls = "Pawn"]_vars

\* A white Pawn has just been promoted to a Knight.
C13_Witness ==
    /\ game_type = "chess"
    /\ op.name = "move"
    /\ op.result = "ok"
    /\ op.args[4] = <<"N">>
    /\ \E k \in DOMAIN figures :
         k[1] = 0 /\ figures[k].cls = "Knight" /\ figures[k].color = "white"

\* C14: get_threatened_figures(player) returns exactly the positions of
\* player's pieces onto which the legality predicate of at least one piece
\* of the other colour accepts a move, and its check flag is true exactly
\* when one of those positions holds player's King.
C14_ThreatenedFigures ==
    op.name = "threats" =>
      LET player == op.args[1]
          attacked(pos) ==
              \E k \in DOMAIN figures :
                /\ figures[k].color # player
                /\ can_move(figures[k], pos[1], pos[2], board, figures,
                            last_move, enemy_to_capture).ret = "True"
          expected == {pos \in DOMAIN figures :
                         figures[pos].color = player /\ attacked(pos)}
      IN  /\ op.result = "ok"
          /\ op.ret[1] = expected
          /\ op.ret[2] = (\E pos \in expected : figures[pos].cls = "King")

\* Black's King is reported in check while another black piece, also on
\* the board, is not threatened.
C14_Witness ==
    /\ op.name = "threats"
    /\ op.args = <<"black">>
    /\ op.ret[2] = TRUE
    /\ \E k \in DOMAIN figures :
         figures[k].color = "black" /\ k \notin op.ret[1]

\* C15: in every state reached by move_figure, place_figure, remove_figure
\* and undo_move calls made with any letter + digit strings, every key of
\* the mapping and every piece's stored (row, column) lies within
\* 0..7 x 0..7.
C15_PositionsInBounds ==
    \A k \in DOMAIN figures :
      /\ k \in (0..7) \X (0..7)
      /\ <<figures[k].row, figures[k].column>> \in (0..7) \X (0..7)

\* C16: for every square of the board, place_figure on the square when it
\* is empty makes get_figure of the square return the placed piece and
\* changes no other square; place_figure on it when it is occupied and
\* remove_figure on it when it is empty fail with ValueError and leave grid
\* and mapping as they are; remove_figure on it when it is occupied empties
\* it in the grid and in the mapping and touches no other square.
C16_PlaceRemoveGet ==
    \A cell \in Cells :
      LET position == indices_to_algebraic(cell[1], cell[2])
          others(figs) == [k \in DOMAIN figs \ {cell} |-> figs[k]]
          same(st) == /\ st.board = [board EXCEPT ![cell] = st.board[cell]]
                      /\ others(st.figures) = others(figures)
      IN  /\ \A cls \in {"Pawn", "Queen"}, color \in Colors :
               LET piece == [cls |-> cls, color |-> color, row |-> 0, column |-> 0] IN
               \A pl \in {place_figure(Cur, piece, position)} :
                 IF board[cell] = "."
                 THEN /\ pl.result = "ok"
                      /\ get_figure(pl.st, position).result = "ok"
                      /\ get_figure(pl.st, position).ret =
                           <<[piece EXCEPT !.row = cell[1], !.column = cell[2]]>>
                      /\ pl.st.board[cell] # "."
                      /\ same(pl.st)
                 ELSE /\ pl.result = "ValueError"
                      /\ pl.st.board = board /\ pl.st.figures = figures
          /\ \A rm \in {remove_figure(Cur, position)} :
               IF board[cell] = "."
               THEN /\ rm.result = "ValueError"
                    /\ rm.st.board = board /\ rm.st.figures = figures
               ELSE /\ rm.result = "ok"
                    /\ rm.st.board[cell] = "."
                    /\ cell \notin DOMAIN rm.st.figures
                    /\ get_figure(rm.st, position).ret = <<>>
                    /\ same(rm.st)

\* A piece has just been removed from a board on which a move was made.
C16_Witness ==
    /\ op.name = "remove"
    /\ op.result = "ok"
    /\ move_count > 0
    /\ ~HasKey(figures, algebraic_to_indices(op.args[1]).row,
               algebraic_to_indices(op.args[1]).column)


\* C17: right after setup_board the board holds the documented start
\* position of its rule set.  chess: the standard back rank (Rook, Knight,
\* Bishop, Queen, King, Bishop, Knight, Rook on files A-H) on ranks 1 and
\* 8, Pawns on ranks 2 and 7, 32 pieces.  checkers: 12 black Checkers on
\* the cells with row + column odd of rows 0-2, 12 white Checkers on those
\* of rows 5-7.  modified_chess: the chess position with LightRook for
\* Rook, Guardian for Knight, ShortBishop for Bishop.  Grid and mapping
\* both show it, the Last Move is none, the history is empty and the move
\* counter is 0.
C17_StartPosition ==
    LET rank == <<"Rook", "Knight", "Bishop", "Queen", "King", "Bishop",
                  "Knight", "Rook">>
        chess(row, column) ==
            CASE row = 0 -> <<rank[column + 1], "black">>
              [] row = 1 -> <<"Pawn", "black">>
              [] row = 6 -> <<"Pawn", "white">>
              [] row = 7 -> <<rank[column + 1], "white">>
              [] OTHER -> <<>>
        swap(cls) ==
            CASE cls = "Rook" -> "LightRook"
              [] cls = "Knight" -> "Guardian"
              [] cls = "Bishop" -> "ShortBishop"
              [] OTHER -> cls
        modified(row, column) ==
            IF chess(row, column) = <<>> THEN <<>>
            ELSE <<swap(chess(row, column)[1]), chess(row, column)[2]>>
        checkers(row, column) ==
            IF (row + column) % 2 # 1 THEN <<>>
            ELSE IF row \in 0..2 THEN <<"Checker", "black">>
            ELSE IF row \in 5..7 THEN <<"Checker", "white">>
            ELSE <<>>
        expected(row, column) ==
            CASE game_type = "chess" -> chess(row, column)
              [] game_type = "checkers" -> checkers(row, column)
              [] game_type = "modified_chess" -> modified(row, column)
        count == IF game_type = "checkers" THEN 24 ELSE 32
    IN  op.name = "setup" =>
          /\ \A cell \in Cells :
               LET e == expected(cell[1], cell[2]) IN
               IF e = <<>>
               THEN board[cell] = "." /\ cell \notin DOMAIN figures
               ELSE /\ cell \in DOMAIN figures
                    /\ figures[cell] = Figure(e[1], e[2], cell[1], cell[2])
                    /\ board[cell] = Symbol(e[1], e[2])
          /\ Cardinality(DOMAIN figures) = count
          /\ last_move = <<>>
          /\ move_history = <<>>
          /\ move_count = 0

\* setup_board has just built the modified_chess position: a black Guardian
\* stands on B8 and a white LightRook on H1.
C17_Witness ==
    /\ op.name = "setup"
    /\ game_type = "modified_chess"
    /\ HasKey(figures, 0, 1) /\ figures[<<0, 1>>].cls = "Guardian"
    /\ HasKey(figures, 7, 7) /\ board[<<7, 7>>] = "L"


\* C18: whenever move_figure executes, in chess or modified_chess, a Pawn's
\* one-step diagonal move onto an empty cell, the Last Move was made by a pawn of the other colour that
\* advanced two ranks, and that pawn stands beside the mover: in the
\* mover's row, in the column of the destination.  This holds after undos
\* and when one colour moves twice in a row as well.
C18_DiagonalOntoEmptyNeedsAdvancedPawn ==
    [][(op = Idle /\ op'.name = "move" /\ op'.result = "ok") =>
         LET pf == algebraic_to_indices(op'.args[1])
             pt == algebraic_to_indices(op'.args[2])
             from == <<pf.row, pf.column>>
             to == <<pt.row, pt.column>>
             mover == figures[from]
             direction == IF mover.color = "white" THEN -1 ELSE 1
             beside == <<from[1], to[2]>>
         IN  (/\ game_type \in {"chess", "modified_chess"}
              /\ mover.cls = "Pawn"
              /\ Abs(to[2] - from[2]) = 1
              /\ to[1] = from[1] + direction
              /\ board[to] = ".") =>
               /\ last_move # <<>>
               /\ LastPiece(last_move).cls = "Pawn"
               /\ LastPiece(last_move).color # mover.color
               /\ Abs(LastTo(last_move)[1] - LastFrom(last_move)[1]) = 2
               /\ LastTo(last_move) = beside
               /\ beside \in DOMAIN figures
               /\ figures[beside].cls = "Pawn"
               /\ figures[beside].color # mover.color]_vars


\* C19: in chess and modified_chess, whenever move_figure executes a Pawn's
\* diagonal move onto an empty cell, the pawn of the Last Move, which
\* stood beside the mover after its two-rank advance, is gone from the grid
\* and from the mapping after that same move: the board holds one piece
\* less.
C19_DiagonalOntoEmptyCaptures ==
    [][(/\ op = Idle /\ op'.name = "move" /\ op'.result = "ok"
        /\ game_type \in {"chess", "modified_chess"}) =>
         LET pf == algebraic_to_indices(op'.args[1])
             pt == algebraic_to_indices(op'.args[2])
             from == <<pf.row, pf.column>>
             to == <<pt.row, pt.column>>
             beside == <<from[1], to[2]>>
         IN  (/\ figures[from].cls = "Pawn"
              /\ to[2] # from[2]
              /\ board[to] = ".") =>
               /\ board'[beside] = "."
               /\ beside \notin DOMAIN figures'
               /\ Cardinality(DOMAIN figures') = Cardinality(DOMAIN figures) - 1]_vars


\* C20: in checkers a CheckerKing's move to another square is executed
\* exactly when the destination is on one of its diagonals and empty, and
\* the cells strictly between origin and destination hold no piece of its
\* colour and at most one of the other colour.  An executed move removes
\* that one enemy piece if there is one and nothing otherwise; every piece
\* off the travelled path stays where it was.
C20_CheckerKingMoves ==
    game_type = "checkers" =>
      \A from \in DOMAIN figures \cap Cells, to \in Cells :
        LET mover == figures[from]
            n == Abs(to[1] - from[1])
            diagonal == n = Abs(to[2] - from[2])
            sr == IF to[1] > from[1] THEN 1 ELSE -1
            sc == IF to[2] > from[2] THEN 1 ELSE -1
            between == {<<from[1] + k * sr, from[2] + k * sc>> : k \in 1..(n - 1)}
            friends == {c \in between \cap DOMAIN figures : figures[c].color = mover.color}
            enemies == {c \in between \cap DOMAIN figures : figures[c].color # mover.color}
            legal == /\ diagonal
                     /\ board[to] = "."
                     /\ friends = {}
                     /\ Cardinality(enemies) <= 1
            o == move_figure(game_type, Cur,
                             indices_to_algebraic(from[1], from[2]),
                             indices_to_algebraic(to[1], to[2]),
                             mover.color, "Q")
        IN  (mover.cls = "CheckerKing" /\ to # from) =>
              /\ o.result = "ok" <=> legal
              /\ o.result # "ok" => o.result = "ValueError" /\ o.st = Cur
              /\ o.result = "ok" =>
                   /\ DOMAIN o.st.figures = (DOMAIN figures \ ({from} \cup enemies)) \cup {to}
                   /\ \A k \in DOMAIN figures \ ({from} \cup enemies) :
                        o.st.figures[k] = figures[k] /\ o.st.board[k] = board[k]
                   /\ \A k \in {from} \cup enemies : o.st.board[k] = "."
                   /\ o.st.figures[to] = set_position(mover, to[1], to[2])
                   /\ o.st.board[to] = Symbol("CheckerKing", mover.color)

\* A CheckerKing has just taken the enemy piece it passed over, and another
\* enemy piece is still on the board.
C20_Witness ==
    /\ game_type = "checkers"
    /\ op.name = "move"
    /\ op.result = "ok"
    /\ op.ret[1] = "chain"
    /\ \E k \in DOMAIN figures : figures[k].cls = "CheckerKing" /\ figures[k].color = "white"
    /\ \E k \in DOMAIN figures : figures[k].color = "black"


\* C21: in a checkers game no position is left recorded in
\* enemy_to_capture between two calls: after every move_figure call,
\* executed or rejected, after every undo_move and after every
\* get_threatened_figures the field is empty.
C21_NoPendingCapture ==
    game_type = "checkers" => enemy_to_capture = <<>>

\* A threat query has just been answered on a checkers board where a
\* CheckerKing of the other colour has an enemy piece next to it on a
\* diagonal, the cell behind that piece being occupied.
C21_Witness ==
    /\ game_type = "checkers"
    /\ op.name = "threats"
    /\ op.result = "ok"
    /\ \E k \in DOMAIN figures, e \in DOMAIN figures :
         /\ figures[k].cls = "CheckerKing"
         /\ figures[k].color # op.args[1]
         /\ figures[e].color = op.args[1]
         /\ Abs(e[1] - k[1]) = 1 /\ Abs(e[2] - k[2]) = 1
         /\ <<2 * e[1] - k[1], 2 * e[2] - k[2]>> \in DOMAIN figures
         /\ figures[<<2 * e[1] - k[1], 2 * e[2] - k[2]>>].color = op.args[1]


\* C22: an executed move in checkers replaces a Checker that arrives on its
\* far rank (row 0 for white, row 7 for black), by a step or by a jump, by
\* a CheckerKing of its colour, and an executed move in modified_chess
\* replaces a LightRook that arrives on its far rank by a Rook of its
\* colour; the grid symbol and the mapping entry of the destination change
\* together.  In these two rule sets every other executed move leaves the
\* piece moved in its class.
C22_AutomaticPromotions ==
    [][(/\ op = Idle /\ op'.name = "move" /\ op'.result = "ok"
        /\ game_type \in {"checkers", "modified_chess"}) =>
         LET pf == algebraic_to_indices(op'.args[1])
             pt == algebraic_to_indices(op'.args[2])
             from == <<pf.row, pf.column>>
             to == <<pt.row, pt.column>>
             mover == figures[from]
             far == \/ mover.color = "white" /\ to[1] = 0
                    \/ mover.color = "black" /\ to[1] = 7
             cls == IF game_type = "checkers" /\ mover.cls = "Checker" /\ far
                    THEN "CheckerKing"
                    ELSE IF game_type = "modified_chess" /\ mover.cls = "LightRook" /\ far
                    THEN "Rook"
                    ELSE mover.cls
         IN  /\ to \in DOMAIN figures'
             /\ figures'[to] = [cls |-> cls, color |-> mover.color,
                                row |-> to[1], column |-> to[2]]
             /\ board'[to] = Symbol(cls, mover.color)]_vars

\* A black Checker has just jumped onto row 7 and stands there as a black
\* CheckerKing.
C22_Witness ==
    /\ game_type = "checkers"
    /\ op.name = "move"
    /\ op.result = "ok"
    /\ op.ret[1] = "jump"
    /\ \E c \in 0..7 :
         /\ <<7, c>> \in DOMAIN figures
         /\ figures[<<7, c>>].cls = "CheckerKing"
         /\ figures[<<7, c>>].color = "black"
         /\ board[<<7, c>>] = "k"
         /\ op.args[2] = indices_to_algebraic(7, c)


\* C23: for a Rook, Bishop, Queen, Knight, King, LightRook, ShortBishop or
\* Guardian, can_move answers False for every destination that holds a
\* piece of the mover's colour, and move_figure with such a destination is
\* never rejected by its own same-colour destination check.
C23_FriendlyDestinationRefusedByPredicate ==
    \A from \in DOMAIN figures, to \in DOMAIN figures :
      LET mover == figures[from] IN
      (/\ mover.cls \in {"Rook", "Bishop", "Queen", "Knight", "King",
                         "LightRook", "ShortBishop", "Guardian"}
       /\ to # from
       /\ figures[to].color = mover.color) =>
        /\ can_move(mover, to[1], to[2], board, figures, last_move,
                    enemy_to_capture).ret = "False"
        /\ move_figure(game_type, Cur,
                       indices_to_algebraic(from[1], from[2]),
                       indices_to_algebraic(to[1], to[2]),
                       mover.color, "Q").err # "OccupiedBySelf"


\* C24: a move_figure call whose destination holds a piece of
\* current_player's colour is never executed, whatever the piece moved and
\* the rule set: grid, mapping and history are as before, and when the
\* destination is another square than the origin the call ends with
\* ValueError.
C24_OwnPieceNeverCaptured ==
    \A from \in DOMAIN figures \cap Cells, to \in DOMAIN figures \cap Cells :
      figures[to].color = figures[from].color =>
        \A o \in {move_figure(game_type, Cur,
                              indices_to_algebraic(from[1], from[2]),
                              indices_to_algebraic(to[1], to[2]),
                              figures[from].color, "Q")} :
          /\ o.result # "ok"
          /\ to # from => o.result = "ValueError"
          /\ o.st.board = board
          /\ o.st.figures = figures
          /\ o.st.move_history = move_history

\* A move onto a piece of the mover's colour has just been rejected by the
\* same-colour check, on a board where a move had been made.
C24_Witness ==
    /\ op.name = "move"
    /\ op.result = "ValueError"
    /\ op.err = "OccupiedBySelf"
    /\ move_count > 0


\* C25: in a session, which starts with white to move, the player to move
\* is white exactly when the move counter is even.  A pass of the loop with
\* an accepted move adds one to the counter and passes the turn; with a
\* rejected move or a hint it keeps the turn; with an undo it gives the
\* turn to the player who made the undone move and takes one from the
\* counter; with an undo on an empty history it keeps the turn.
C25_TurnFollowsCounter ==
    [][/\ (main_current_player = "white") <=> (move_count % 2 = 0)
       /\ (main_current_player' = "white") <=> (move_count' % 2 = 0)
       /\ (op = Idle /\ op'.name = "move" /\ op'.result = "ok") =>
            /\ main_current_player' = OtherPlayer(main_current_player)
            /\ move_count' = move_count + 1
       /\ (op = Idle /\ op'.name = "move" /\ op'.result # "ok") =>
            /\ main_current_player' = main_current_player
            /\ move_count' = move_count
       /\ (op = Idle /\ op'.name = "threats") =>
            /\ main_current_player' = main_current_player
            /\ move_count' = move_count
       /\ (op = Idle /\ op'.name = "undo" /\ move_history # <<>>) =>
            /\ main_current_player' = gtrace[Len(gtrace)].player
            /\ move_count' = move_count - 1
       /\ (op = Idle /\ op'.name = "undo" /\ move_history = <<>>) =>
            /\ main_current_player' = main_current_player
            /\ move_count' = move_count]_vars

\* Black's move has just been undone after white's first move: it is
\* black's turn again and the counter is 1.
C25_Witness ==
    /\ op.name = "undo"
    /\ op.ret = <<"black">>
    /\ main_current_player = "black"
    /\ move_count = 1
    /\ Len(move_history) = 1


\* C26: for every Rook, Bishop, Queen, LightRook and ShortBishop on the
\* board and every destination cell of the board, can_move answers True
\* exactly when the destination is at distance >= 1 on a line of the piece
\* (orthogonal for Rook and LightRook, diagonal for Bishop and ShortBishop,
\* either for Queen), at distance 1 or 2 for LightRook and ShortBishop, and
\* every cell strictly between origin and destination is empty.
C26_SlidingGeometry ==
    \A from \in DOMAIN figures \cap Cells, to \in Cells :
      LET mover == figures[from]
          dr == to[1] - from[1]
          dc == to[2] - from[2]
          n == Max(Abs(dr), Abs(dc))
          orthogonal == (dr = 0) # (dc = 0)
          diagonal == Abs(dr) = Abs(dc) /\ dr # 0
          sr == IF dr > 0 THEN 1 ELSE IF dr < 0 THEN -1 ELSE 0
          sc == IF dc > 0 THEN 1 ELSE IF dc < 0 THEN -1 ELSE 0
          clear == \A k \in 1..(n - 1) : board[<<from[1] + k * sr, from[2] + k * sc>>] = "."
          line == CASE mover.cls \in {"Rook", "LightRook"} -> orthogonal
                    [] mover.cls \in {"Bishop", "ShortBishop"} -> diagonal
                    [] OTHER -> orthogonal \/ diagonal
          reach == mover.cls \in {"LightRook", "ShortBishop"} => n \in {1, 2}
      IN  mover.cls \in {"Rook", "Bishop", "Queen", "LightRook", "ShortBishop"} =>
            ((can_move(mover, to[1], to[2], board, figures, last_move,
                       enemy_to_capture).ret = "True")
               <=> (line /\ reach /\ clear))

\* A ShortBishop has just moved two cells along a diagonal.
C26_Witness ==
    /\ op.name = "move"
    /\ op.result = "ok"
    /\ LET pf == algebraic_to_indices(op.args[1])
           pt == algebraic_to_indices(op.args[2])
       IN  /\ Abs(pt.row - pf.row) = 2
           /\ HasKey(figures, pt.row, pt.column)
           /\ figures[<<pt.row, pt.column>>].cls = "ShortBishop"


\* C27: a move_figure call whose destination equals its origin, made by
\* the owner of the piece on that square, ends with the ValueError of the
\* legality check and leaves the state as it was, for every piece.
C27_SelfMoveIsOrdinaryIllegalMove ==
    \A from \in DOMAIN figures \cap Cells :
      \A o \in {move_figure(game_type, Cur,
                            indices_to_algebraic(from[1], from[2]),
                            indices_to_algebraic(from[1], from[2]),
                            figures[from].color, "Q")} :
        /\ o.result = "ValueError"
        /\ o.err = "IllegalMove"
        /\ o.st = Cur


\* C28: a move_figure call that returns takes at most one piece off the
\* board.  The number of pieces afterwards is the number before or one
\* less; the destination holds the moved piece, or the piece it was
\* promoted to, of the same colour; the origin is empty; and there is at
\* most one other square, which held a piece and is now empty, besides
\* which every square other than origin and destination is as before.
C28_AtMostOnePieceRemoved ==
    [][(op = Idle /\ op'.name = "move" /\ op'.result = "ok") =>
         LET pf == algebraic_to_indices(op'.args[1])
             pt == algebraic_to_indices(op'.args[2])
             from == <<pf.row, pf.column>>
             to == <<pt.row, pt.column>>
             changed == {c \in Cells \ {from, to} :
                            \/ board'[c] # board[c]
                            \/ (c \in DOMAIN figures) # (c \in DOMAIN figures')
                            \/ c \in DOMAIN figures /\ c \in DOMAIN figures'
                                 /\ figures'[c] # figures[c]}
         IN  /\ Cardinality(DOMAIN figures') \in
                  {Cardinality(DOMAIN figures), Cardinality(DOMAIN figures) - 1}
             /\ from \in DOMAIN figures
             /\ from \notin DOMAIN figures'
             /\ board'[from] = "."
             /\ to \in DOMAIN figures'
             /\ figures'[to].color = figures[from].color
             /\ figures'[to].row = to[1] /\ figures'[to].column = to[2]
             /\ \/ figures'[to].cls = figures[from].cls
                \/ op'.ret[2] # "none"
             /\ board'[to] # "."
             /\ Cardinality(changed) <= 1
             /\ \A c \in changed : c \in DOMAIN figures /\ c \notin DOMAIN figures'
                                     /\ board[c] # "." /\ board'[c] = "."
             /\ (changed # {} => to \notin DOMAIN figures)
    ]_vars

\* A jump of a Checker has just taken the piece it jumped over, and only
\* that piece, off the board.
C28_Witness ==
    /\ op.name = "move"
    /\ op.result = "ok"
    /\ op.ret[1] = "jump"
    /\ move_count > 0
    /\ Cardinality(DOMAIN figures) = Cardinality(DOMAIN gtrace[Len(gtrace)].pre.figures) - 1


\* C29: in a checkers game get_threatened_figures returns, for either
\* player and in every state, an empty list and a false check flag, and
\* leaves the state as it was: no Checker and no CheckerKing accepts a move
\* onto an occupied cell, also not onto a piece it can jump.
C29_NoThreatsInCheckers ==
    (game_type = "checkers" /\ figures # << >>) =>
      \A player \in Colors :
        get_threatened_figures(Cur, player)
          = {Outcome("ok", "", <<{}, FALSE>>, Cur)}

\* The threat listing has just been answered for a player one of whose
\* pieces the other player can jump in the position of the call.
C29_Witness ==
    /\ game_type = "checkers"
    /\ op.name = "threats"
    /\ op.result = "ok"
    /\ op.ret = <<{}, FALSE>>
    /\ \E from \in Squares, to \in Squares :
         \E o \in {move_figure(game_type, Cur, from, to,
                               OtherPlayer(op.args[1]), "Q")} :
           /\ o.result = "ok"
           /\ o.ret[1] \in {"jump", "chain"}
           /\ o.ret[3] # << >>
           /\ o.ret[3][1].color = op.args[1]

====
